---- MODULE Spec2Model ----
(***************************************************************************)
(* Markdown editor application (frontend/src/App.tsx), its formatting      *)
(* engine first:                                                           *)
(* handleFormat (inline toggles, line-prefix transforms, paragraph,        *)
(* block inserts, clearFormatting) and detectActiveStyles, over a text     *)
(* buffer held as a sequence of one-character strings and a selection      *)
(* given by 0-based offsets [from, to).                                    *)
(***************************************************************************)
EXTENDS Integers, Sequences, FiniteSets, TLC

VARIABLES
  content,     \* App state `content`: the buffer
  selFrom,     \* editor selection (view.state.selection.main.from)
  selTo,       \* editor selection (view.state.selection.main.to)
  phase,       \* "input" | "applied" | "reapplied"
  type,        \* format id of the last handleFormat call ("none" before)
  path,        \* branch of handleFormat taken by the last call
  outcome,     \* "none" | "returned" | "threw"
  request,     \* arguments of the setSelection call of the last call, or <<>>
  inContent,   \* buffer before the first call
  inFrom,      \* selection before the first call
  inTo,
  firstPath,   \* branch taken by the first call
  aiEnhance,         \* App state `aiEnhance`: <<>> (null) or <<the open dialog's record>>
  aiApplied,         \* <<>> or <<the last run of handleApplyAIEnhancement>>
  debouncedContent,  \* useDebounce(content, 1000)
  savedContent,      \* App state `savedContent` (local storage)
  isSaving,          \* App state `isSaving`
  saveTimer,         \* <<>> or <<the value the pending 300 ms timer will save>>
  event,             \* <<>> or <<the last keydown event>>
  handled            \* handlers that the last keydown ran, in order

\* state of the application around the buffer
appVars == <<aiEnhance, aiApplied, debouncedContent, savedContent, isSaving, saveTimer,
             event, handled>>

vars == <<content, selFrom, selTo, phase, type, path, outcome, request,
          inContent, inFrom, inTo, firstPath, aiEnhance, aiApplied, debouncedContent,
          savedContent, isSaving, saveTimer, event, handled>>

----------------------------------------------------------------------------
(* JavaScript string primitives                                            *)

Min(a, b) == IF a < b THEN a ELSE b
Max(a, b) == IF a > b THEN a ELSE b

\* String.prototype.slice(a, b) for a, b >= 0
Slice(s, a, b) ==
  LET f == Min(a, Len(s))
      t == Min(b, Len(s))
  IN IF f >= t THEN <<>> ELSE SubSeq(s, f + 1, t)

\* String.prototype.slice(a)
SliceFrom(s, a) == Slice(s, a, Len(s))

\* s[i] with a 0-based index; "" stands for undefined (out of range)
At(s, i) == IF i >= 0 /\ i < Len(s) THEN s[i + 1] ELSE ""

StartsWith(s, p) == Len(p) <= Len(s) /\ SubSeq(s, 1, Len(p)) = p
EndsWith(s, p) == Len(p) <= Len(s) /\ SubSeq(s, Len(s) - Len(p) + 1, Len(s)) = p
\* s.startsWith(p, i)
StartsWithAt(s, i, p) == i + Len(p) <= Len(s) /\ SubSeq(s, i + 1, i + Len(p)) = p

\* the backtick character (U+0060); a TLA+ string cannot hold it
BQ == "BQ"

\* character classes of the regular expressions
IsSpace(c) == c \in {" ", "\n", "\t"}
IsDigit(c) == c \in {"0", "1", "2", "3", "4", "5", "6", "7", "8", "9"}
IsBullet(c) == c \in {"-", "*", "+"}

\* least element of a non-empty set of numbers
Least(S) == CHOOSE x \in S : \A y \in S : x <= y
Greatest(S) == CHOOSE x \in S : \A y \in S : x >= y

\* the least index of `stops` (indices where a scan from i ends), the end of
\* the string when the scan runs off it
ScanEnd(s, i, stops) == IF stops = {} THEN Max(i, Len(s)) ELSE Least(stops)

\* first index >= i whose character is not white space (\s*)
SkipSpace(s, i) == ScanEnd(s, i, {k \in i..(Len(s) - 1) : ~IsSpace(s[k + 1])})

\* first index >= i whose character differs from c (c*)
SkipChar(s, i, c) == ScanEnd(s, i, {k \in i..(Len(s) - 1) : s[k + 1] # c})

\* first index >= i whose character is not a digit (\d*)
SkipDigits(s, i) == ScanEnd(s, i, {k \in i..(Len(s) - 1) : ~IsDigit(s[k + 1])})

\* the end of s[0..j) without its trailing white space (trimEnd)
BackSpace(s, j) ==
  LET solid == {k \in 1..j : ~IsSpace(s[k])}
  IN IF solid = {} THEN 0 ELSE Greatest(solid)

TrimStart(s) == SliceFrom(s, SkipSpace(s, 0))
Trim(s) == LET a == SkipSpace(s, 0) IN Slice(s, a, BackSpace(s, Len(s)))

\* s.includes(c) for a single character
Includes(s, c) == \E k \in 1..Len(s) : s[k] = c

\* s.split(sep) for a single character: the pieces between the separators
Split(s, sep) ==
  LET at == {k \in 0..(Len(s) - 1) : s[k + 1] = sep}
      n == Cardinality(at)
      \* index of the k-th separator; -1 before the first, Len(s) after the last
      cut[k \in 0..(n + 1)] ==
        IF k = 0 THEN -1
        ELSE IF k = n + 1 THEN Len(s)
        ELSE Least({x \in at : x > cut[k - 1]})
  IN [k \in 1..(n + 1) |-> Slice(s, cut[k - 1] + 1, cut[k])]

\* lines.join(sep)
RECURSIVE Join(_, _)
Join(ls, sep) ==
  IF Len(ls) = 0 THEN <<>>
  ELSE IF Len(ls) = 1 THEN ls[1]
  ELSE ls[1] \o sep \o Join(Tail(ls), sep)

\* decimal digits of a positive number (template literal `${orderNum}`)
RECURSIVE NumStr(_)
NumStr(n) ==
  LET d == <<"0", "1", "2", "3", "4", "5", "6", "7", "8", "9">>
  IN IF n < 10 THEN <<d[n + 1]>> ELSE NumStr(n \div 10) \o <<d[(n % 10) + 1]>>

----------------------------------------------------------------------------
(* Marker catalog: the `formats` table of handleFormat                     *)

formats ==
     ("bold" :> [prefix |-> <<"*", "*">>,
        suffix |-> <<"*", "*">>,
        placeholder |-> <<"b", "o", "l", "d", " ", "t", "e", "x", "t">>,
        linePrefix |-> FALSE])
  @@ ("italic" :> [prefix |-> <<"*">>,
        suffix |-> <<"*">>,
        placeholder |-> <<"i", "t", "a", "l", "i", "c", " ", "t", "e", "x", "t">>,
        linePrefix |-> FALSE])
  @@ ("code" :> [prefix |-> <<BQ>>,
        suffix |-> <<BQ>>,
        placeholder |-> <<"c", "o", "d", "e">>,
        linePrefix |-> FALSE])
  @@ ("strikethrough" :> [prefix |-> <<"~", "~">>,
        suffix |-> <<"~", "~">>,
        placeholder |-> <<"s", "t", "r", "i", "k", "e", "t", "h", "r", "o", "u", "g", "h">>,
        linePrefix |-> FALSE])
  @@ ("paragraph" :> [prefix |-> <<>>,
        suffix |-> <<>>,
        placeholder |-> <<>>,
        linePrefix |-> TRUE])
  @@ ("h1" :> [prefix |-> <<"#", " ">>,
        suffix |-> <<>>,
        placeholder |-> <<"H", "e", "a", "d", "i", "n", "g", " ", "1">>,
        linePrefix |-> TRUE])
  @@ ("h2" :> [prefix |-> <<"#", "#", " ">>,
        suffix |-> <<>>,
        placeholder |-> <<"H", "e", "a", "d", "i", "n", "g", " ", "2">>,
        linePrefix |-> TRUE])
  @@ ("h3" :> [prefix |-> <<"#", "#", "#", " ">>,
        suffix |-> <<>>,
        placeholder |-> <<"H", "e", "a", "d", "i", "n", "g", " ", "3">>,
        linePrefix |-> TRUE])
  @@ ("h4" :> [prefix |-> <<"#", "#", "#", "#", " ">>,
        suffix |-> <<>>,
        placeholder |-> <<"H", "e", "a", "d", "i", "n", "g", " ", "4">>,
        linePrefix |-> TRUE])
  @@ ("h5" :> [prefix |-> <<"#", "#", "#", "#", "#", " ">>,
        suffix |-> <<>>,
        placeholder |-> <<"H", "e", "a", "d", "i", "n", "g", " ", "5">>,
        linePrefix |-> TRUE])
  @@ ("h6" :> [prefix |-> <<"#", "#", "#", "#", "#", "#", " ">>,
        suffix |-> <<>>,
        placeholder |-> <<"H", "e", "a", "d", "i", "n", "g", " ", "6">>,
        linePrefix |-> TRUE])
  @@ ("quote" :> [prefix |-> <<">", " ">>,
        suffix |-> <<>>,
        placeholder |-> <<"q", "u", "o", "t", "e">>,
        linePrefix |-> TRUE])
  @@ ("list" :> [prefix |-> <<"-", " ">>,
        suffix |-> <<>>,
        placeholder |-> <<"l", "i", "s", "t", " ", "i", "t", "e", "m">>,
        linePrefix |-> TRUE])
  @@ ("orderedList" :> [prefix |-> <<"1", ".", " ">>,
        suffix |-> <<>>,
        placeholder |-> <<"l", "i", "s", "t", " ", "i", "t", "e", "m">>,
        linePrefix |-> TRUE])
  @@ ("task" :> [prefix |-> <<"-", " ", "[", " ", "]", " ">>,
        suffix |-> <<>>,
        placeholder |-> <<"t", "a", "s", "k">>,
        linePrefix |-> TRUE])
  @@ ("codeBlock" :> [prefix |-> <<BQ, BQ, BQ, "\n">>,
        suffix |-> <<"\n", BQ, BQ, BQ>>,
        placeholder |-> <<"c", "o", "d", "e", " ", "h", "e", "r", "e">>,
        linePrefix |-> FALSE])
  @@ ("hr" :> [prefix |-> <<"\n", "-", "-", "-", "\n">>,
        suffix |-> <<>>,
        placeholder |-> <<>>,
        linePrefix |-> FALSE])
  @@ ("table" :> [prefix |-> <<"\n", "|", " ", "H", "e", "a", "d", "e", "r", " ", "1", " ", "|", " ", "H", "e", "a", "d", "e", "r", " ", "2", " ", "|", " ", "H", "e", "a", "d", "e", "r", " ", "3", " ", "|", "\n", "|", " ", "-", "-", "-", "-", "-", "-", "-", "-", " ", "|", " ", "-", "-", "-", "-", "-", "-", "-", "-", " ", "|", " ", "-", "-", "-", "-", "-", "-", "-", "-", " ", "|", "\n", "|", " ", "C", "e", "l", "l", " ", "1", " ", " ", " ", "|", " ", "C", "e", "l", "l", " ", "2", " ", " ", " ", "|", " ", "C", "e", "l", "l", " ", "3", " ", " ", " ", "|", "\n", "|", " ", "C", "e", "l", "l", " ", "4", " ", " ", " ", "|", " ", "C", "e", "l", "l", " ", "5", " ", " ", " ", "|", " ", "C", "e", "l", "l", " ", "6", " ", " ", " ", "|", "\n">>,
        suffix |-> <<>>,
        placeholder |-> <<>>,
        linePrefix |-> FALSE])
  @@ ("footnote" :> [prefix |-> <<"[", "^">>,
        suffix |-> <<"]">>,
        placeholder |-> <<"n", "o", "t", "e">>,
        linePrefix |-> FALSE])
  @@ ("subscript" :> [prefix |-> <<"<", "s", "u", "b", ">">>,
        suffix |-> <<"<", "/", "s", "u", "b", ">">>,
        placeholder |-> <<"s", "u", "b", "s", "c", "r", "i", "p", "t">>,
        linePrefix |-> FALSE])
  @@ ("superscript" :> [prefix |-> <<"<", "s", "u", "p", ">">>,
        suffix |-> <<"<", "/", "s", "u", "p", ">">>,
        placeholder |-> <<"s", "u", "p", "e", "r", "s", "c", "r", "i", "p", "t">>,
        linePrefix |-> FALSE])
  @@ ("highlight" :> [prefix |-> <<"<", "m", "a", "r", "k", ">">>,
        suffix |-> <<"<", "/", "m", "a", "r", "k", ">">>,
        placeholder |-> <<"h", "i", "g", "h", "l", "i", "g", "h", "t", "e", "d", " ", "t", "e", "x", "t">>,
        linePrefix |-> FALSE])

FormatIds == DOMAIN formats
InlineTypes == {"bold", "italic", "code", "strikethrough", "subscript", "superscript", "highlight"}
InsertTypes == {"codeBlock", "hr", "table", "footnote"}
HeadingTypes == {"h1", "h2", "h3", "h4", "h5", "h6"}
LinePrefixTypes == HeadingTypes \cup {"quote", "list", "orderedList", "task"}

\* ids that are not own keys of `formats`: one that is no property at all and
\* one that `formats[type]` finds on Object.prototype
UnknownTypes == {"unknownFormat", "toString"}
InheritedKeys == {"toString"}

----------------------------------------------------------------------------
(* handleFormat: what one call does to the buffer and which selection it   *)
(* asks the editor for                                                     *)

\* no change, no setSelection call
Unchanged(c, p) == [content |-> c, request |-> <<>>, path |-> p, outcome |-> "returned"]

\* updateContent(newContent); setSelection(a, b)
Commit(newContent, a, b, p) ==
  [content |-> newContent, request |-> <<a, b>>, path |-> p, outcome |-> "returned"]

\* updateContent(newContent) alone
CommitContent(newContent, p) ==
  [content |-> newContent, request |-> <<>>, path |-> p, outcome |-> "returned"]

\* while (ls > 0 && content[ls - 1] !== '\n') ls--
LineStartOf(c, pos) ==
  LET breaks == {k \in 1..Min(pos, Len(c)) : c[k] = "\n"}
  IN IF breaks = {} THEN 0 ELSE Greatest(breaks)

\* while (le < content.length && content[le] !== '\n') le++
LineEndOf(c, pos) == ScanEnd(c, pos, {k \in pos..(Len(c) - 1) : c[k + 1] = "\n"})

\* length of the match of /^(#{1,6})\s/, 0 when there is none
HeadingMatchLen(line) ==
  LET n == SkipChar(line, 0, "#")
  IN IF n >= 1 /\ n <= 6 /\ IsSpace(At(line, n)) THEN n + 1 ELSE 0

\* /^=+\s*$/ and /^-+\s*$/ on a line
IsUnderline(line, c) ==
  LET n == SkipChar(line, 0, c)
  IN n >= 1 /\ SkipSpace(line, n) = Len(line)

\* variant: the hashes are deleted, the whitespace after them stays
ParagraphFormatKeepsSpace(c, start, end) ==
  LET lineStart == LineStartOf(c, start)
      lineEnd == LineEndOf(c, end)
      lineContent == Slice(c, lineStart, lineEnd)
      hlen == HeadingMatchLen(lineContent)
      nextLineStart == lineEnd + 1
      nextLineEnd == LineEndOf(c, nextLineStart)
      nextLine == Slice(c, nextLineStart, nextLineEnd)
  IN IF hlen > 0
     THEN Commit(Slice(c, 0, lineStart) \o SliceFrom(c, lineStart + hlen - 1),
                 Max(lineStart, start - hlen), end - hlen, "paragraphHash")
     ELSE IF IsUnderline(nextLine, "=") \/ IsUnderline(nextLine, "-")
     THEN CommitContent(Slice(c, 0, lineEnd) \o SliceFrom(c, nextLineEnd), "paragraphSetext")
     ELSE Unchanged(c, "paragraphNone")

\* type === 'paragraph'
ParagraphFormat(c, start, end) ==
  LET lineStart == LineStartOf(c, start)
      lineEnd == LineEndOf(c, end)
      lineContent == Slice(c, lineStart, lineEnd)
      hlen == HeadingMatchLen(lineContent)
      nextLineStart == lineEnd + 1
      nextLineEnd == LineEndOf(c, nextLineStart)
      nextLine == Slice(c, nextLineStart, nextLineEnd)
  IN IF hlen > 0
     THEN Commit(Slice(c, 0, lineStart) \o SliceFrom(c, lineStart + hlen),
                 Max(lineStart, start - hlen), end - hlen, "paragraphHash")
     ELSE IF IsUnderline(nextLine, "=") \/ IsUnderline(nextLine, "-")
     THEN CommitContent(Slice(c, 0, lineEnd) \o SliceFrom(c, nextLineEnd), "paragraphSetext")
     ELSE Unchanged(c, "paragraphNone")

\* type === 'bold' ? '__' : '_'
AltMarker(t) == IF t = "bold" THEN <<"_", "_">> ELSE <<"_">>

\* variant: after the markers at the borders are taken off, the old offsets
\* are asked for
InlineToggleOffUnshifted(c, start, end, t, prefix, suffix) ==
  LET selectedText == Slice(c, start, end)
      beforeStart == Slice(c, Max(0, start - Len(prefix)), start)
      afterEnd == Slice(c, end, end + Len(suffix))
      alt == AltMarker(t)
      beforeStartAlt == Slice(c, Max(0, start - Len(alt)), start)
      afterEndAlt == Slice(c, end, end + Len(alt))
      hasAlt == t \in {"bold", "italic"}
  IN IF beforeStart = prefix /\ afterEnd = suffix
     THEN Commit(Slice(c, 0, start - Len(prefix)) \o selectedText \o SliceFrom(c, end + Len(suffix)),
                 start, end, "unwrapBorder")
     ELSE IF hasAlt /\ beforeStartAlt = alt /\ afterEndAlt = alt
     THEN Commit(Slice(c, 0, start - Len(alt)) \o selectedText \o SliceFrom(c, end + Len(alt)),
                 start, end, "unwrapAltBorder")
     ELSE IF StartsWith(selectedText, prefix) /\ EndsWith(selectedText, suffix)
             /\ Len(selectedText) > Len(prefix) + Len(suffix)
     THEN LET unwrapped == Slice(selectedText, Len(prefix), Len(selectedText) - Len(suffix))
          IN Commit(Slice(c, 0, start) \o unwrapped \o SliceFrom(c, end),
                    start, start + Len(unwrapped), "unwrapSelf")
     ELSE IF hasAlt /\ StartsWith(selectedText, alt) /\ EndsWith(selectedText, alt)
             /\ Len(selectedText) > Len(alt) * 2
     THEN LET unwrapped == Slice(selectedText, Len(alt), Len(selectedText) - Len(alt))
          IN Commit(Slice(c, 0, start) \o unwrapped \o SliceFrom(c, end),
                    start, start + Len(unwrapped), "unwrapAltSelf")
     ELSE Unchanged(c, "none")

\* the toggle-off tests of an inline format on a non-empty selection; falls
\* through (path "none") when the selection is not wrapped
InlineToggleOff(c, start, end, t, prefix, suffix) ==
  LET selectedText == Slice(c, start, end)
      beforeStart == Slice(c, Max(0, start - Len(prefix)), start)
      afterEnd == Slice(c, end, end + Len(suffix))
      alt == AltMarker(t)
      beforeStartAlt == Slice(c, Max(0, start - Len(alt)), start)
      afterEndAlt == Slice(c, end, end + Len(alt))
      hasAlt == t \in {"bold", "italic"}
  IN IF beforeStart = prefix /\ afterEnd = suffix
     THEN Commit(Slice(c, 0, start - Len(prefix)) \o selectedText \o SliceFrom(c, end + Len(suffix)),
                 start - Len(prefix), end - Len(prefix), "unwrapBorder")
     ELSE IF hasAlt /\ beforeStartAlt = alt /\ afterEndAlt = alt
     THEN Commit(Slice(c, 0, start - Len(alt)) \o selectedText \o SliceFrom(c, end + Len(alt)),
                 start - Len(alt), end - Len(alt), "unwrapAltBorder")
     ELSE IF StartsWith(selectedText, prefix) /\ EndsWith(selectedText, suffix)
             /\ Len(selectedText) > Len(prefix) + Len(suffix)
     THEN LET unwrapped == Slice(selectedText, Len(prefix), Len(selectedText) - Len(suffix))
          IN Commit(Slice(c, 0, start) \o unwrapped \o SliceFrom(c, end),
                    start, start + Len(unwrapped), "unwrapSelf")
     ELSE IF hasAlt /\ StartsWith(selectedText, alt) /\ EndsWith(selectedText, alt)
             /\ Len(selectedText) > Len(alt) * 2
     THEN LET unwrapped == Slice(selectedText, Len(alt), Len(selectedText) - Len(alt))
          IN Commit(Slice(c, 0, start) \o unwrapped \o SliceFrom(c, end),
                    start, start + Len(unwrapped), "unwrapAltSelf")
     ELSE Unchanged(c, "none")

\* the entries of linePrefixPatterns: length of match[0] (0: no match) and
\* the indentation group match[1] of the list patterns
NoMatch == [len |-> 0, indent |-> <<>>]

QuoteMatch(line) ==
  LET n == SkipChar(line, 0, ">")
  IN IF n >= 1
     THEN [len |-> IF IsSpace(At(line, n)) THEN n + 1 ELSE n, indent |-> <<>>]
     ELSE NoMatch

BulletMatch(line) ==
  LET k == SkipSpace(line, 0)
  IN IF IsBullet(At(line, k)) /\ IsSpace(At(line, k + 1)) /\ At(line, k + 2) # "["
     THEN [len |-> k + 2, indent |-> Slice(line, 0, k)]
     ELSE NoMatch

OrderedMatch(line) ==
  LET k == SkipSpace(line, 0)
      d == SkipDigits(line, k)
  IN IF d > k /\ At(line, d) = "." /\ IsSpace(At(line, d + 1))
     THEN [len |-> d + 2, indent |-> Slice(line, 0, k)]
     ELSE NoMatch

TaskMatch(line) ==
  LET k == SkipSpace(line, 0)
  IN IF IsBullet(At(line, k)) /\ IsSpace(At(line, k + 1)) /\ At(line, k + 2) = "["
        /\ At(line, k + 3) \in {" ", "x", "X"} /\ At(line, k + 4) = "]"
        /\ IsSpace(At(line, k + 5))
     THEN [len |-> k + 6, indent |-> Slice(line, 0, k)]
     ELSE NoMatch

HeadingMatch(line) == [len |-> HeadingMatchLen(line), indent |-> <<>>]

\* for (const pattern of linePrefixPatterns): the first pattern that matches
linePrefixPatterns(line) ==
  IF HeadingMatch(line).len > 0 THEN HeadingMatch(line)
  ELSE IF QuoteMatch(line).len > 0 THEN QuoteMatch(line)
  ELSE IF BulletMatch(line).len > 0 THEN BulletMatch(line)
  ELSE IF OrderedMatch(line).len > 0 THEN OrderedMatch(line)
  ELSE TaskMatch(line)

IsBlank(line) == Len(Trim(line)) = 0

\* nonEmptyLines.length > 0 && nonEmptyLines.every(...)
allHavePrefix(lines, t, prefix) ==
  /\ \E k \in 1..Len(lines) : ~IsBlank(lines[k])
  /\ \A k \in 1..Len(lines) :
       IsBlank(lines[k]) \/
         IF t = "orderedList" THEN OrderedMatch(lines[k]).len > 0
         ELSE StartsWith(TrimStart(lines[k]), Trim(prefix))

\* variant: every ordered-list line gets the prefix of the table, "1. "
RECURSIVE processedLinesCatalogPrefix(_, _, _, _, _)
processedLinesCatalogPrefix(lines, orderNum, t, prefix, allHave) ==
  IF Len(lines) = 0 THEN <<>>
  ELSE
    LET line == lines[1]
        m == linePrefixPatterns(line)
    IN IF IsBlank(line)
       THEN <<line>> \o processedLinesCatalogPrefix(Tail(lines), orderNum, t, prefix, allHave)
       ELSE IF allHave
       THEN <<SliceFrom(line, m.len)>>
            \o processedLinesCatalogPrefix(Tail(lines), orderNum, t, prefix, allHave)
       ELSE <<m.indent \o prefix \o SliceFrom(line, m.len)>>
            \o processedLinesCatalogPrefix(Tail(lines), orderNum, t, prefix, allHave)

\* variant: the blank-line test comes after the numbering, so that a blank
\* line uses up a number
RECURSIVE processedLinesCountsBlank(_, _, _, _, _)
processedLinesCountsBlank(lines, orderNum, t, prefix, allHave) ==
  IF Len(lines) = 0 THEN <<>>
  ELSE
    LET line == lines[1]
        m == linePrefixPatterns(line)
        num == IF t = "orderedList" THEN NumStr(orderNum) \o <<".", " ">> ELSE prefix
        nextNum == IF t = "orderedList" /\ ~allHave THEN orderNum + 1 ELSE orderNum
    IN IF IsBlank(line)
       THEN <<line>> \o processedLinesCountsBlank(Tail(lines), nextNum, t, prefix, allHave)
       ELSE IF allHave
       THEN <<SliceFrom(line, m.len)>>
            \o processedLinesCountsBlank(Tail(lines), orderNum, t, prefix, allHave)
       ELSE <<m.indent \o num \o SliceFrom(line, m.len)>>
            \o processedLinesCountsBlank(Tail(lines), nextNum, t, prefix, allHave)

\* lines.map(...) of the line-prefix branch, with the running orderNum
RECURSIVE processedLines(_, _, _, _, _)
processedLines(lines, orderNum, t, prefix, allHave) ==
  IF Len(lines) = 0 THEN <<>>
  ELSE
    LET line == lines[1]
        m == linePrefixPatterns(line)
        num == IF t = "orderedList" THEN NumStr(orderNum) \o <<".", " ">> ELSE prefix
    IN IF IsBlank(line)
       THEN <<line>> \o processedLines(Tail(lines), orderNum, t, prefix, allHave)
       ELSE IF allHave
       THEN <<SliceFrom(line, m.len)>> \o processedLines(Tail(lines), orderNum, t, prefix, allHave)
       ELSE <<m.indent \o num \o SliceFrom(line, m.len)>>
            \o processedLines(Tail(lines), IF t = "orderedList" THEN orderNum + 1 ELSE orderNum,
                              t, prefix, allHave)

\* variant: the selection keeps its old start and only its end is moved
LinePrefixFormatKeepsStart(c, start, end, t, prefix) ==
  LET firstLineStart == LineStartOf(c, start)
      lastLineEnd == LineEndOf(c, end)
      selectedBlock == Slice(c, firstLineStart, lastLineEnd)
      lines == Split(selectedBlock, "\n")
      allHave == allHavePrefix(lines, t, prefix)
      newBlock == Join(processedLines(lines, 1, t, prefix, allHave), <<"\n">>)
      lengthDiff == Len(newBlock) - Len(selectedBlock)
  IN Commit(Slice(c, 0, firstLineStart) \o newBlock \o SliceFrom(c, lastLineEnd),
            start, end + lengthDiff,
            IF allHave THEN "lineToggleOff" ELSE "lineReplace")

\* a line-prefix format on a non-empty selection
LinePrefixFormat(c, start, end, t, prefix) ==
  LET firstLineStart == LineStartOf(c, start)
      lastLineEnd == LineEndOf(c, end)
      selectedBlock == Slice(c, firstLineStart, lastLineEnd)
      lines == Split(selectedBlock, "\n")
      allHave == allHavePrefix(lines, t, prefix)
      newBlock == Join(processedLines(lines, 1, t, prefix, allHave), <<"\n">>)
      lengthDiff == Len(newBlock) - Len(selectedBlock)
  IN Commit(Slice(c, 0, firstLineStart) \o newBlock \o SliceFrom(c, lastLineEnd),
            firstLineStart, lastLineEnd + lengthDiff,
            IF allHave THEN "lineToggleOff" ELSE "lineReplace")

\* variant: the wrap asks for the old offsets, not shifted by the prefix
ApplyNewUnshifted(c, start, end, f) ==
  LET selectedText == Slice(c, start, end)
      lineStart == LineStartOf(c, start)
      textToFormat == IF Len(selectedText) > 0 THEN selectedText ELSE f.placeholder
  IN IF f.linePrefix
     THEN Commit(Slice(c, 0, lineStart) \o f.prefix \o f.placeholder \o SliceFrom(c, lineStart),
                 lineStart + Len(f.prefix), lineStart + Len(f.prefix) + Len(f.placeholder),
                 "lineInsert")
     ELSE Commit(Slice(c, 0, start) \o f.prefix \o textToFormat \o f.suffix \o SliceFrom(c, end),
                 start, start + Len(textToFormat), "wrap")

\* variant: the wrap selects the markers together with the text
ApplyNewSelectsMarkers(c, start, end, f) ==
  LET selectedText == Slice(c, start, end)
      lineStart == LineStartOf(c, start)
      textToFormat == IF Len(selectedText) > 0 THEN selectedText ELSE f.placeholder
  IN IF f.linePrefix
     THEN Commit(Slice(c, 0, lineStart) \o f.prefix \o f.placeholder \o SliceFrom(c, lineStart),
                 lineStart + Len(f.prefix), lineStart + Len(f.prefix) + Len(f.placeholder),
                 "lineInsert")
     ELSE Commit(Slice(c, 0, start) \o f.prefix \o textToFormat \o f.suffix \o SliceFrom(c, end),
                 start, start + Len(f.prefix) + Len(textToFormat) + Len(f.suffix), "wrap")

\* "Apply new formatting": a line prefix at the caret's line, or the wrap
ApplyNew(c, start, end, f) ==
  LET selectedText == Slice(c, start, end)
      lineStart == LineStartOf(c, start)
      textToFormat == IF Len(selectedText) > 0 THEN selectedText ELSE f.placeholder
  IN IF f.linePrefix
     THEN Commit(Slice(c, 0, lineStart) \o f.prefix \o f.placeholder \o SliceFrom(c, lineStart),
                 lineStart + Len(f.prefix), lineStart + Len(f.prefix) + Len(f.placeholder),
                 "lineInsert")
     ELSE Commit(Slice(c, 0, start) \o f.prefix \o textToFormat \o f.suffix \o SliceFrom(c, end),
                 start + Len(f.prefix), start + Len(f.prefix) + Len(textToFormat), "wrap")
----------------------------------------------------------------------------
(* clearFormatting: the chain of cleanText.replace(...) passes             *)

LowerLetters == {"a", "b", "c", "d", "e", "f", "g", "h", "i", "j", "k", "l", "m",
                 "n", "o", "p", "q", "r", "s", "t", "u", "v", "w", "x", "y", "z"}
UpperLetters == {"A", "B", "C", "D", "E", "F", "G", "H", "I", "J", "K", "L", "M",
                 "N", "O", "P", "Q", "R", "S", "T", "U", "V", "W", "X", "Y", "Z"}
IsLetter(c) == c \in LowerLetters \cup UpperLetters
IsAlnum(c) == IsLetter(c) \/ IsDigit(c)

\* case folding of the `i` flag
ToLower(c) ==
  IF c \in UpperLetters
  THEN ("A" :> "a" @@ "B" :> "b" @@ "C" :> "c" @@ "D" :> "d" @@ "E" :> "e" @@ "F" :> "f"
        @@ "G" :> "g" @@ "H" :> "h" @@ "I" :> "i" @@ "J" :> "j" @@ "K" :> "k" @@ "L" :> "l"
        @@ "M" :> "m" @@ "N" :> "n" @@ "O" :> "o" @@ "P" :> "p" @@ "Q" :> "q" @@ "R" :> "r"
        @@ "S" :> "s" @@ "T" :> "t" @@ "U" :> "u" @@ "V" :> "v" @@ "W" :> "w" @@ "X" :> "x"
        @@ "Y" :> "y" @@ "Z" :> "z")[c]
  ELSE c
LowerStr(s) == [k \in 1..Len(s) |-> ToLower(s[k])]

\* first index >= i holding character c, Len(s) when there is none ([^c]*)
FindChar(s, i, c) ==
  LET at == {k \in i..(Len(s) - 1) : s[k + 1] = c}
  IN IF at = {} THEN Len(s) ELSE Least(at)

\* first index >= i where s continues with p, -1 when there is none
FindStr(s, i, p) ==
  LET at == {k \in i..(Len(s) - Len(p)) : StartsWithAt(s, k, p)}
  IN IF at = {} THEN -1 ELSE Least(at)

SkipLetters(s, i) == ScanEnd(s, i, {k \in i..(Len(s) - 1) : ~IsLetter(s[k + 1])})

SkipAlnum(s, i) == ScanEnd(s, i, {k \in i..(Len(s) - 1) : ~IsAlnum(s[k + 1])})

\* ^ under the m flag
AtLineStart(s, i) == i = 0 \/ s[i] = "\n"

Miss == [len |-> 0, out |-> <<>>]
Hit(n, o) == [len |-> n, out |-> o]

\* /```[a-z]*\n?([\s\S]*?)```/gi -> $1
FenceAt(s, i) ==
  LET fence == <<BQ, BQ, BQ>>
      q1 == SkipLetters(s, i + 3)
      q == IF At(s, q1) = "\n" THEN q1 + 1 ELSE q1
      p == FindStr(s, q, fence)
  IN IF StartsWithAt(s, i, fence) /\ p >= 0 THEN Hit(p + 3 - i, Slice(s, q, p)) ELSE Miss

\* /m([^c]+)m/g -> $1 for a marker m made of the character c
WrapAt(s, i, m, c) ==
  LET k == FindChar(s, i + Len(m), c)
  IN IF StartsWithAt(s, i, m) /\ k > i + Len(m) /\ StartsWithAt(s, k, m)
     THEN Hit(k + Len(m) - i, Slice(s, i + Len(m), k))
     ELSE Miss

\* /open([^\]]* or +)\]( \( [^)]*\) | \[ [^\]]*\] )/g -> $1
BracketAt(s, i, open, minText, second, close) ==
  LET a == i + Len(open)
      k == FindChar(s, a, "]")
      e == FindChar(s, k + 2, close)
  IN IF StartsWithAt(s, i, open) /\ k >= a + minText /\ k < Len(s)
        /\ At(s, k + 1) = second /\ e < Len(s)
     THEN Hit(e + 1 - i, Slice(s, a, k))
     ELSE Miss

\* /^\s*\[[^\]]+\]:\s*\S.*$/gm -> ''
RefDefAt(s, i) ==
  LET j == SkipSpace(s, i)
      k == FindChar(s, j + 1, "]")
      m == SkipSpace(s, k + 2)
      e == LineEndOf(s, m + 1)
  IN IF AtLineStart(s, i) /\ At(s, j) = "[" /\ k > j + 1 /\ k < Len(s)
        /\ At(s, k + 1) = ":" /\ m < Len(s)
     THEN Hit(e - i, <<>>)
     ELSE Miss

\* /\[\^[^\]]+\]/g -> ''
FootRefAt(s, i) ==
  LET k == FindChar(s, i + 2, "]")
  IN IF StartsWithAt(s, i, <<"[", "^">>) /\ k > i + 2 /\ k < Len(s)
     THEN Hit(k + 1 - i, <<>>)
     ELSE Miss

\* /\^\[[^\]]*\]/g -> ''
InlineFootAt(s, i) ==
  LET k == FindChar(s, i + 2, "]")
  IN IF StartsWithAt(s, i, <<"^", "[">>) /\ k < Len(s)
     THEN Hit(k + 1 - i, <<>>)
     ELSE Miss

\* the lookahead (?=\n\S|\n\n|\Z); without the u flag \Z is the letter Z
FootDefStop(s, p) ==
  \/ At(s, p) = "\n" /\ p + 1 < Len(s) /\ (~IsSpace(At(s, p + 1)) \/ At(s, p + 1) = "\n")
  \/ At(s, p) = "Z"

FindFootDefStop(s, p) ==
  LET at == {k \in p..Len(s) : FootDefStop(s, k)}
  IN IF at = {} THEN -1 ELSE Least(at)

\* /^\s*\[\^[^\]]+\]:[\s\S]*?(?=\n\S|\n\n|\Z)/gm -> ''
FootDefAt(s, i) ==
  LET j == SkipSpace(s, i)
      k == FindChar(s, j + 2, "]")
      p == FindFootDefStop(s, k + 2)
  IN IF AtLineStart(s, i) /\ StartsWithAt(s, j, <<"[", "^">>) /\ k > j + 2 /\ k < Len(s)
        /\ At(s, k + 1) = ":" /\ p >= 0
     THEN Hit(p - i, <<>>)
     ELSE Miss

\* /(?<![\\])_([^_]+)_/g -> $1
ItalicUnderscoreAt(s, i) ==
  IF At(s, i - 1) # "\\" THEN WrapAt(s, i, <<"_">>, "_") ELSE Miss

\* /\\([*_`~\[\]()#+-\.!|\\])/g -> $1 ; +-\. is the range from + to .
EscapedChars == {"*", "_", BQ, "~", "[", "]", "(", ")", "#", "+", ",", "-", ".", "!", "|", "\\"}
EscapeAt(s, i) ==
  IF At(s, i) = "\\" /\ At(s, i + 1) \in EscapedChars THEN Hit(2, <<At(s, i + 1)>>) ELSE Miss

\* first index >= i where s continues with p, compared without case
FindStrNoCase(s, i, p) ==
  LET at == {k \in i..(Len(s) - Len(p)) : LowerStr(SubSeq(s, k + 1, k + Len(p))) = LowerStr(p)}
  IN IF at = {} THEN -1 ELSE Least(at)

\* /<([a-z][a-z0-9]*)[^>]*>([\s\S]*?)<\/\1>/gi -> $2 : the longest tag name
\* (n characters, tried from the greedy one down) that has a closing tag
RECURSIVE HtmlPairTry(_, _, _, _)
HtmlPairTry(s, i, gt, n) ==
  IF n < 1 THEN Miss
  ELSE LET closing == <<"<", "/">> \o Slice(s, i + 1, i + 1 + n) \o <<">">>
           p == FindStrNoCase(s, gt + 1, closing)
       IN IF p >= 0 THEN Hit(p + Len(closing) - i, Slice(s, gt + 1, p))
          ELSE HtmlPairTry(s, i, gt, n - 1)

HtmlPairAt(s, i) ==
  LET nameEnd == SkipAlnum(s, i + 2)
      gt == FindChar(s, i + 2, ">")
  IN IF At(s, i) = "<" /\ IsLetter(At(s, i + 1)) /\ gt < Len(s)
     THEN HtmlPairTry(s, i, gt, nameEnd - (i + 1))
     ELSE Miss

\* /<[^>]+\/?>/g -> ''
HtmlTagAt(s, i) ==
  LET k == FindChar(s, i + 1, ">")
  IN IF At(s, i) = "<" /\ k > i + 1 /\ k < Len(s) THEN Hit(k + 1 - i, <<>>) ELSE Miss

\* /\n{3,}/g -> '\n\n'
NewlinesAt(s, i) ==
  LET n == SkipChar(s, i, "\n") - i
  IN IF n >= 3 THEN Hit(n, <<"\n", "\n">>) ELSE Miss

MatchAt(pat, s, i) ==
  CASE pat = "fence" -> FenceAt(s, i)
    [] pat = "code" -> WrapAt(s, i, <<BQ>>, BQ)
    [] pat = "image" -> BracketAt(s, i, <<"!", "[">>, 0, "(", ")")
    [] pat = "imageRef" -> BracketAt(s, i, <<"!", "[">>, 0, "[", "]")
    [] pat = "link" -> BracketAt(s, i, <<"[">>, 1, "(", ")")
    [] pat = "linkRef" -> BracketAt(s, i, <<"[">>, 1, "[", "]")
    [] pat = "refDef" -> RefDefAt(s, i)
    [] pat = "footRef" -> FootRefAt(s, i)
    [] pat = "inlineFoot" -> InlineFootAt(s, i)
    [] pat = "footDef" -> FootDefAt(s, i)
    [] pat = "boldItalicStar" -> WrapAt(s, i, <<"*", "*", "*">>, "*")
    [] pat = "boldItalicUnderscore" -> WrapAt(s, i, <<"_", "_", "_">>, "_")
    [] pat = "boldStar" -> WrapAt(s, i, <<"*", "*">>, "*")
    [] pat = "boldUnderscore" -> WrapAt(s, i, <<"_", "_">>, "_")
    [] pat = "italicStar" -> WrapAt(s, i, <<"*">>, "*")
    [] pat = "italicUnderscore" -> ItalicUnderscoreAt(s, i)
    [] pat = "strike" -> WrapAt(s, i, <<"~", "~">>, "~")
    [] pat = "escape" -> EscapeAt(s, i)
    [] pat = "htmlPair" -> HtmlPairAt(s, i)
    [] pat = "htmlTag" -> HtmlTagAt(s, i)
    [] pat = "newlines" -> NewlinesAt(s, i)

\* String.prototype.replace with a g-flag pattern: the leftmost match at or
\* after i is replaced, and the scan goes on behind it
RECURSIVE ReplaceFrom(_, _, _)

\* the first index >= i where the pattern matches, Len(s) when it never does
FirstHit(pat, s, i) == ScanEnd(s, i, {k \in i..(Len(s) - 1) : MatchAt(pat, s, k).len > 0})

\* the match m at k replaced, the text between i and k kept
Splice(pat, s, i, k, m) == Slice(s, i, k) \o m.out \o ReplaceFrom(pat, s, k + m.len)

ReplaceAt(pat, s, i, k) ==
  IF k >= Len(s) THEN SliceFrom(s, i) ELSE Splice(pat, s, i, k, MatchAt(pat, s, k))

ReplaceFrom(pat, s, i) == ReplaceAt(pat, s, i, FirstHit(pat, s, i))
ReplaceAll(pat, s) == ReplaceFrom(pat, s, 0)

\* variant: links are rewritten before images, so an image leaves its "!"
InlinePassesLinkFirst ==
  <<"fence", "code", "link", "image", "imageRef", "linkRef", "refDef", "footRef",
    "inlineFoot", "footDef", "boldItalicStar", "boldItalicUnderscore", "boldStar",
    "boldUnderscore", "italicStar", "italicUnderscore", "strike", "escape",
    "htmlPair", "htmlTag">>

\* the inline passes in the order of the source
InlinePasses ==
  <<"fence", "code", "image", "imageRef", "link", "linkRef", "refDef", "footRef",
    "inlineFoot", "footDef", "boldItalicStar", "boldItalicUnderscore", "boldStar",
    "boldUnderscore", "italicStar", "italicUnderscore", "strike", "escape",
    "htmlPair", "htmlTag">>

\* the chained .replace calls, in source order: each pass is computed on the
\* finished result of the one before it
RECURSIVE RunPasses(_, _)
RunPasses(passes, s) ==
  IF Len(passes) = 0 \/ s = <<>> THEN s
  ELSE RunPasses(Tail(passes), ReplaceAll(passes[1], s))

\* first index >= i whose character is neither white space nor '>'
SkipQuote(s, i) ==
  ScanEnd(s, i, {k \in i..(Len(s) - 1) : ~(IsSpace(s[k + 1]) \/ s[k + 1] = ">")})

\* cleaned.replace(/^#{1,6}\s+/, '')
StripHeading(line) ==
  LET n == SkipChar(line, 0, "#")
  IN IF n >= 1 /\ n <= 6 /\ IsSpace(At(line, n)) THEN SliceFrom(line, SkipSpace(line, n)) ELSE line

\* cleaned.replace(/^(?:\s*>\s*)+/, '')
StripQuote(line) ==
  LET j == SkipQuote(line, 0)
  IN IF Includes(Slice(line, 0, j), ">") THEN SliceFrom(line, j) ELSE line

\* cleaned.replace(/^\s*[-*+]\s+/, '')
StripBullet(line) ==
  LET k == SkipSpace(line, 0)
  IN IF IsBullet(At(line, k)) /\ IsSpace(At(line, k + 1))
     THEN SliceFrom(line, SkipSpace(line, k + 1)) ELSE line

\* cleaned.replace(/^\s*\d+\.\s+/, '')
StripOrdered(line) ==
  LET k == SkipSpace(line, 0)
      d == SkipDigits(line, k)
  IN IF d > k /\ At(line, d) = "." /\ IsSpace(At(line, d + 1))
     THEN SliceFrom(line, SkipSpace(line, d + 1)) ELSE line

\* cleaned.replace(/^\s*[-*+]\s*\[[ xX]\]\s*/, '')
StripTask(line) ==
  LET k == SkipSpace(line, 0)
      j == SkipSpace(line, k + 1)
  IN IF IsBullet(At(line, k)) /\ At(line, j) = "[" /\ At(line, j + 1) \in {" ", "x", "X"}
        /\ At(line, j + 2) = "]"
     THEN SliceFrom(line, SkipSpace(line, j + 3)) ELSE line

\* /^\s*[c]{3,}\s*$/
IsRule(line, c) ==
  LET k == SkipSpace(line, 0)
      n == SkipChar(line, k, c)
  IN n - k >= 3 /\ SkipSpace(line, n) = Len(line)

\* the callback of the per-line map (line, index, allLines); index is 0-based
CleanLine(line, index, allLines) ==
  LET c1 == StripHeading(line)
      prev == allLines[index]
      c5 == StripTask(StripOrdered(StripBullet(StripQuote(c1))))
  IN IF (IsUnderline(c1, "=") \/ IsUnderline(c1, "-"))
        /\ index > 0 /\ Len(Trim(prev)) > 0 /\ ~Includes(prev, "|")
     THEN <<>>
     ELSE IF IsRule(c5, "-") \/ IsRule(c5, "*") \/ IsRule(c5, "_") THEN <<>>
     ELSE c5

\* line.replace(/^\s*\||\|\s*$/g, '')
StripOuterPipes(line) ==
  LET k == SkipSpace(line, 0)
      a == IF At(line, k) = "|" THEN k + 1 ELSE 0
      rest == SliceFrom(line, a)
      e == BackSpace(rest, Len(rest))
  IN IF e > 0 /\ rest[e] = "|" THEN Slice(rest, 0, e - 1) ELSE rest

\* cells.map(cell => cell.trim()).filter(cell => cell.length > 0)
RECURSIVE TrimmedCells(_)
TrimmedCells(cells) ==
  IF Len(cells) = 0 THEN <<>>
  ELSE IF Len(Trim(cells[1])) > 0 THEN <<Trim(cells[1])>> \o TrimmedCells(Tail(cells))
  ELSE TrimmedCells(Tail(cells))

\* the callback of the table map
CleanTableLine(line) ==
  LET isSeparator ==
        /\ Len(line) >= 1
        /\ \A k \in 1..Len(line) : IsSpace(line[k]) \/ line[k] \in {"|", ":", "-"}
        /\ Includes(line, "-") /\ Includes(line, "|")
      cells == TrimmedCells(Split(StripOuterPipes(line), "|"))
  IN IF isSeparator THEN <<>>
     ELSE IF Includes(line, "|") THEN Join(cells, <<" ", " ">>)
     ELSE line

\* .filter((line, i, arr) => ...) over the trimmed lines; i is 0-based
RECURSIVE KeepLines(_, _)
KeepLines(arr, i) ==
  IF i >= Len(arr) THEN <<>>
  ELSE LET line == arr[i + 1]
           keep == \/ Len(line) > 0
                   \/ i > 0 /\ i < Len(arr) - 1 /\ Len(arr[i]) > 0 /\ Len(arr[i + 2]) > 0
       IN (IF keep THEN <<line>> ELSE <<>>) \o KeepLines(arr, i + 1)

\* .split('\n').map((line, index, allLines) => ...).join('\n')
MapCleanLine(lines) ==
  Join([k \in 1..Len(lines) |-> CleanLine(lines[k], k - 1, lines)], <<"\n">>)
CleanLines(text) == IF text = <<>> THEN <<>> ELSE MapCleanLine(Split(text, "\n"))

\* .split('\n').map(line => ...).join('\n') of the table step
MapCleanTableLine(lines) == Join([k \in 1..Len(lines) |-> CleanTableLine(lines[k])], <<"\n">>)
CleanTables(text) == IF text = <<>> THEN <<>> ELSE MapCleanTableLine(Split(text, "\n"))

\* .replace(/\n{3,}/g, '\n\n')
CollapseNewlines(text) == IF text = <<>> THEN <<>> ELSE ReplaceAll("newlines", text)

\* .split('\n').map(line => line.trim()).filter(...).join('\n')
TrimAll(lines) == [k \in 1..Len(lines) |-> Trim(lines[k])]
DropBlankLines(text) ==
  IF text = <<>> THEN <<>> ELSE Join(KeepLines(TrimAll(Split(text, "\n")), 0), <<"\n">>)

\* the whole clearFormatting pipeline on the selected text; every step works
\* on the finished result of the step before it
ClearText(selectedText) ==
  Trim(DropBlankLines(CollapseNewlines(CleanTables(CleanLines(
    RunPasses(InlinePasses, selectedText))))))

\* variant: without the guard on an empty selection, a caret clears its line
ClearFormattingCaretLine(c, start, end) ==
  LET a == IF start = end THEN LineStartOf(c, start) ELSE start
      b == IF start = end THEN LineEndOf(c, end) ELSE end
      cleanText == ClearText(Slice(c, a, b))
  IN Commit(Slice(c, 0, a) \o cleanText \o SliceFrom(c, b), a, a + Len(cleanText), "clear")

\* variant: the selection keeps its old end after the text got shorter
ClearFormattingStaleEnd(c, start, end) ==
  LET selectedText == Slice(c, start, end)
      cleanText == ClearText(selectedText)
  IN IF Len(selectedText) = 0 THEN Unchanged(c, "clearEmpty")
     ELSE Commit(Slice(c, 0, start) \o cleanText \o SliceFrom(c, end), start, end, "clear")

\* type === 'clearFormatting'
ClearFormatting(c, start, end) ==
  LET selectedText == Slice(c, start, end)
      cleanText == ClearText(selectedText)
  IN IF Len(selectedText) = 0 THEN Unchanged(c, "clearEmpty")
     ELSE Commit(Slice(c, 0, start) \o cleanText \o SliceFrom(c, end),
                 start, start + Len(cleanText), "clear")

\* variant: no lookup guard, an id without an entry is wrapped in nothing
handleFormatNoLookupGuard(t, c, start, end) ==
  LET f == IF t \in FormatIds THEN formats[t]
           ELSE [prefix |-> <<>>, suffix |-> <<>>, placeholder |-> <<>>, linePrefix |-> FALSE]
      selectedText == Slice(c, start, end)
      off == InlineToggleOff(c, start, end, t, f.prefix, f.suffix)
  IN IF t = "clearFormatting" THEN ClearFormatting(c, start, end)
     ELSE IF t = "paragraph" THEN ParagraphFormat(c, start, end)
     ELSE IF Len(selectedText) > 0 /\ ~f.linePrefix /\ Len(f.suffix) > 0 /\ off.path # "none"
     THEN off
     ELSE IF Len(selectedText) > 0 /\ f.linePrefix
     THEN LinePrefixFormat(c, start, end, t, f.prefix)
     ELSE ApplyNew(c, start, end, f)

\* handleFormat(type) on buffer c with the editor selection [start, end)
handleFormat(t, c, start, end) ==
  LET f == formats[t]
      selectedText == Slice(c, start, end)
      off == InlineToggleOff(c, start, end, t, f.prefix, f.suffix)
  IN IF t = "clearFormatting" THEN ClearFormatting(c, start, end)
     ELSE IF t \in InheritedKeys
     THEN [content |-> c, request |-> <<>>, path |-> "typeError", outcome |-> "threw"]
     ELSE IF t \notin FormatIds THEN Unchanged(c, "unknown")
     ELSE IF t = "paragraph" THEN ParagraphFormat(c, start, end)
     ELSE IF Len(selectedText) > 0 /\ ~f.linePrefix /\ Len(f.suffix) > 0 /\ off.path # "none"
     THEN off
     ELSE IF Len(selectedText) > 0 /\ f.linePrefix
     THEN LinePrefixFormat(c, start, end, t, f.prefix)
     ELSE ApplyNew(c, start, end, f)

----------------------------------------------------------------------------
(* detectActiveStyles(text, from, to) on buffer c                          *)

\* the wrap tests shared by the inline styles
Bordered(before, after, pre, suf) == EndsWith(before, pre) /\ StartsWith(after, suf)

\* variant: every heading test adds its style, no else between them
lineStylesIndependentHeadings(fullLineContent, nextLine) ==
  LET hashes == SkipChar(fullLineContent, 0, "#")
      isHash(n) == hashes = n /\ IsSpace(At(fullLineContent, n))
      notBlank == Len(Trim(fullLineContent)) > 0
      isH1Alt == IsUnderline(nextLine, "=") /\ notBlank
      isH2Alt == IsUnderline(nextLine, "-") /\ notBlank /\ At(fullLineContent, 0) # ">"
      isQuote == QuoteMatch(fullLineContent).len > 0
      isBulletList == BulletMatch(fullLineContent).len > 0
      isOrderedList == OrderedMatch(fullLineContent).len > 0
      isTaskList == TaskMatch(fullLineContent).len > 0
      hasLinePrefix ==
        \/ \E n \in 1..6 : isHash(n)
        \/ isH1Alt \/ isH2Alt \/ isQuote \/ isBulletList \/ isOrderedList \/ isTaskList
  IN (IF isHash(1) \/ isH1Alt THEN {"h1"} ELSE {})
     \cup (IF isHash(2) \/ isH2Alt THEN {"h2"} ELSE {})
     \cup (IF isHash(3) THEN {"h3"} ELSE {})
     \cup (IF isHash(4) THEN {"h4"} ELSE {})
     \cup (IF isHash(5) THEN {"h5"} ELSE {})
     \cup (IF isHash(6) THEN {"h6"} ELSE {})
     \cup (IF isQuote THEN {"quote"} ELSE {})
     \cup (IF isBulletList THEN {"list"} ELSE {})
     \cup (IF isOrderedList THEN {"orderedList"} ELSE {})
     \cup (IF isTaskList THEN {"task"} ELSE {})
     \cup (IF ~hasLinePrefix /\ notBlank THEN {"paragraph"} ELSE {})

\* the line styles of the line fullLineContent that is followed by nextLine
lineStyles(fullLineContent, nextLine) ==
  LET hashes == SkipChar(fullLineContent, 0, "#")
      isHash(n) == hashes = n /\ IsSpace(At(fullLineContent, n))
      notBlank == Len(Trim(fullLineContent)) > 0
      isH1Alt == IsUnderline(nextLine, "=") /\ notBlank
      isH2Alt == IsUnderline(nextLine, "-") /\ notBlank /\ At(fullLineContent, 0) # ">"
      isQuote == QuoteMatch(fullLineContent).len > 0
      isBulletList == BulletMatch(fullLineContent).len > 0
      isOrderedList == OrderedMatch(fullLineContent).len > 0
      isTaskList == TaskMatch(fullLineContent).len > 0
      heading ==
        IF isHash(1) \/ isH1Alt THEN {"h1"}
        ELSE IF isHash(2) \/ isH2Alt THEN {"h2"}
        ELSE IF isHash(3) THEN {"h3"}
        ELSE IF isHash(4) THEN {"h4"}
        ELSE IF isHash(5) THEN {"h5"}
        ELSE IF isHash(6) THEN {"h6"}
        ELSE {}
      hasLinePrefix ==
        \/ \E n \in 1..6 : isHash(n)
        \/ isH1Alt \/ isH2Alt \/ isQuote \/ isBulletList \/ isOrderedList \/ isTaskList
  IN heading
     \cup (IF isQuote THEN {"quote"} ELSE {})
     \cup (IF isBulletList THEN {"list"} ELSE {})
     \cup (IF isOrderedList THEN {"orderedList"} ELSE {})
     \cup (IF isTaskList THEN {"task"} ELSE {})
     \cup (IF ~hasLinePrefix /\ notBlank THEN {"paragraph"} ELSE {})

detectActiveStyles(c, text, from, to) ==
  LET prefixLength == Min(from, 10)
      suffixLength == Min(Len(c) - to, 10)
      beforeSelection == Slice(c, from - prefixLength, from)
      afterSelection == Slice(c, to, to + suffixLength)
      star == <<"*">>
      star2 == <<"*", "*">>
      under == <<"_">>
      under2 == <<"_", "_">>
      tick == <<BQ>>
      tick2 == <<BQ, BQ>>
      tilde2 == <<"~", "~">>
      isBoldAsterisk ==
        \/ Bordered(beforeSelection, afterSelection, star2, star2)
        \/ StartsWith(text, star2) /\ EndsWith(text, star2) /\ Len(text) > 4
      isBoldUnderscore ==
        \/ Bordered(beforeSelection, afterSelection, under2, under2)
        \/ StartsWith(text, under2) /\ EndsWith(text, under2) /\ Len(text) > 4
      beforeEndsWithSingleStar == EndsWith(beforeSelection, star) /\ ~EndsWith(beforeSelection, star2)
      afterStartsWithSingleStar == StartsWith(afterSelection, star) /\ ~StartsWith(afterSelection, star2)
      beforeEndsWithSingleUnderscore ==
        EndsWith(beforeSelection, under) /\ ~EndsWith(beforeSelection, under2)
      afterStartsWithSingleUnderscore ==
        StartsWith(afterSelection, under) /\ ~StartsWith(afterSelection, under2)
      isItalicAsterisk ==
        \/ beforeEndsWithSingleStar /\ afterStartsWithSingleStar
        \/ StartsWith(text, star) /\ ~StartsWith(text, star2) /\ EndsWith(text, star)
           /\ ~EndsWith(text, star2) /\ Len(text) > 2
      isItalicUnderscore ==
        \/ beforeEndsWithSingleUnderscore /\ afterStartsWithSingleUnderscore
        \/ StartsWith(text, under) /\ ~StartsWith(text, under2) /\ EndsWith(text, under)
           /\ ~EndsWith(text, under2) /\ Len(text) > 2
      isStrike ==
        \/ Bordered(beforeSelection, afterSelection, tilde2, tilde2)
        \/ StartsWith(text, tilde2) /\ EndsWith(text, tilde2) /\ Len(text) > 4
      isCode ==
        \/ EndsWith(beforeSelection, tick) /\ ~EndsWith(beforeSelection, tick2)
           /\ StartsWith(afterSelection, tick) /\ ~StartsWith(afterSelection, tick2)
        \/ StartsWith(text, tick) /\ ~StartsWith(text, tick2) /\ EndsWith(text, tick)
           /\ ~EndsWith(text, tick2) /\ Len(text) > 2
      isTag(t) ==
        \/ Bordered(beforeSelection, afterSelection, formats[t].prefix, formats[t].suffix)
        \/ StartsWith(text, formats[t].prefix) /\ EndsWith(text, formats[t].suffix)
      lineStart == LineStartOf(c, from)
      lineEnd == LineEndOf(c, to)
      fullLineContent == Slice(c, lineStart, lineEnd)
      nextLineStart == lineEnd + 1
      nextLineEnd == LineEndOf(c, nextLineStart)
      nextLine == Slice(c, nextLineStart, nextLineEnd)
  IN (IF isBoldAsterisk \/ isBoldUnderscore THEN {"bold"} ELSE {})
     \cup (IF isItalicAsterisk \/ isItalicUnderscore THEN {"italic"} ELSE {})
     \cup (IF isStrike THEN {"strikethrough"} ELSE {})
     \cup (IF isCode THEN {"code"} ELSE {})
     \cup {t \in {"subscript", "superscript", "highlight"} : isTag(t)}
     \cup lineStyles(fullLineContent, nextLine)

----------------------------------------------------------------------------
(* The editor widget                                                       *)

\* EditorRef.setSelection(from, to): both ends clamped to the document, then
\* selection.main.from / .to are the lower and the upper end
EditorSetSelection(docLength, from, to) ==
  LET safeFrom == Max(0, Min(from, docLength))
      safeTo == Max(0, Min(to, docLength))
  IN <<Min(safeFrom, safeTo), Max(safeFrom, safeTo)>>

\* the formats table of the editor's own handleFormat
EditorFormats ==
     ("bold" :> [prefix |-> <<"*", "*">>, suffix |-> <<"*", "*">>])
  @@ ("italic" :> [prefix |-> <<"*">>, suffix |-> <<"*">>])
  @@ ("code" :> [prefix |-> <<BQ>>, suffix |-> <<BQ>>])

\* Editor.handleFormat(type) of the selection toolbar on the document doc with
\* the main selection [from, to): one dispatch that replaces the selection by
\* the wrapped text and selects the text inside the markers
EditorHandleFormat(t, doc, from, to) ==
  LET selectedText == Slice(doc, from, to)
  IN IF t \notin DOMAIN EditorFormats \/ Len(selectedText) = 0
     THEN Unchanged(doc, "toolbarNone")
     ELSE LET prefix == EditorFormats[t].prefix
              suffix == EditorFormats[t].suffix
              wrapped == prefix \o selectedText \o suffix
          IN Commit(Slice(doc, 0, from) \o wrapped \o SliceFrom(doc, to),
                    from + Len(prefix), from + Len(prefix) + Len(selectedText), "toolbarWrap")

\* the selections the editor may hold after the call: the one asked for; the
\* old one when nothing changed; otherwise where the widget maps the old
\* selection through the replacement of the whole document
SelectionsAfter(r, c, from, to) ==
  IF r.request # <<>> THEN {EditorSetSelection(Len(r.content), r.request[1], r.request[2])}
  ELSE IF r.content = c THEN {<<from, to>>}
  ELSE {<<0, 0>>, <<0, Len(r.content)>>, <<Len(r.content), Len(r.content)>>}

----------------------------------------------------------------------------
(* State machine: a command on the input, then the same command once more  *)

\* the concatenation of a sequence of tokens
RECURSIVE Flat(_)
Flat(toks) == IF Len(toks) = 0 THEN <<>> ELSE toks[1] \o Flat(Tail(toks))

TokenSeqs(T, n) == UNION {[1..k -> T] : k \in 0..n}

MaxInlineTokens == 3
MaxLineTokens == 3
MaxMixedTokens == 2
MaxClearTokens == 3
MaxUnits == 2

InlineTokens == {<<"a">>, <<"*">>, <<"*", "*">>, <<"_">>, <<"_", "_">>, <<BQ>>, <<"~", "~">>}

LineTokens == {<<"a">>, <<"#", " ">>, <<"#", "#", " ">>, <<">", " ">>, <<"-", " ">>,
               <<"1", ".", " ">>, <<"-", " ", "[", " ", "]", " ">>, <<"\n">>, <<" ">>, <<"[">>}

MixedTokens == {<<"a">>, <<"*", "*">>, <<"_">>, <<"#", " ">>, <<"#", "#", " ">>, <<"-", " ">>,
                <<"\n">>, <<"=">>, <<BQ>>}

ClearTokens == {<<"a">>, <<"*", "*">>, <<"_">>, <<BQ>>, <<"#", " ">>, <<"\n">>,
                <<"[", "a", "]", "(", "u", ")">>}

\* plain words wrapped in the inline syntax that clearFormatting knows
UnitKinds == {"plain", "boldStar", "boldUnderscore", "italicStar", "italicUnderscore",
              "strike", "code", "link", "image"}
UnitWords == {<<"a">>, <<"b", "c">>}
Url == <<"h", "t", "t", "p", ":", "/", "/", "x">>
Units == [kind : UnitKinds, word : UnitWords]

\* a unit as it is written in the buffer
Marked(u) ==
  CASE u.kind = "plain" -> u.word
    [] u.kind = "boldStar" -> <<"*", "*">> \o u.word \o <<"*", "*">>
    [] u.kind = "boldUnderscore" -> <<"_", "_">> \o u.word \o <<"_", "_">>
    [] u.kind = "italicStar" -> <<"*">> \o u.word \o <<"*">>
    [] u.kind = "italicUnderscore" -> <<"_">> \o u.word \o <<"_">>
    [] u.kind = "strike" -> <<"~", "~">> \o u.word \o <<"~", "~">>
    [] u.kind = "code" -> <<BQ>> \o u.word \o <<BQ>>
    [] u.kind = "link" -> <<"[">> \o u.word \o <<"]", "(">> \o Url \o <<")">>
    [] u.kind = "image" -> <<"!", "[">> \o u.word \o <<"]", "(">> \o Url \o <<")">>

And == <<" ", "a", "n", "d", " ">>

\* the units of a sequence joined by " and ": as written, and their bare words
MarkedText(us) == Join([k \in 1..Len(us) |-> Marked(us[k])], And)
InnerText(us) == Join([k \in 1..Len(us) |-> us[k].word], And)

ExampleUnits ==
  <<[kind |-> "boldStar", word |-> <<"b", "o", "l", "d">>],
    [kind |-> "link", word |-> <<"l", "i", "n", "k">>],
    [kind |-> "code", word |-> <<"c", "o", "d", "e">>]>>

\* every composed input with the text that is left without its markup
UnitCases ==
  {[marked |-> MarkedText(us), inner |-> InnerText(us)] :
     us \in (TokenSeqs(Units, MaxUnits) \ {<<>>}) \cup {ExampleUnits}}

\* the editor holds buffer c with the selection [i, j), no command issued yet
InitAt(c, i, j) ==
  /\ content = c
  /\ selFrom = i
  /\ selTo = j
  /\ phase = "input"
  /\ type = "none"
  /\ path = "none"
  /\ outcome = "none"
  /\ request = <<>>
  /\ inContent = c
  /\ inFrom = i
  /\ inTo = j
  /\ firstPath = "none"
  /\ aiEnhance = <<>>
  /\ aiApplied = <<>>
  /\ debouncedContent = c
  /\ savedContent = c
  /\ isSaving = FALSE
  /\ saveTimer = <<>>
  /\ event = <<>>
  /\ handled = <<>>

\* buffers built from at most n tokens of T, selections at token borders
InitFrom(T, n) ==
  \E toks \in TokenSeqs(T, n) : \E i \in 0..Len(toks) : \E j \in i..Len(toks) :
    InitAt(Flat(toks), Len(Flat(SubSeq(toks, 1, i))), Len(Flat(SubSeq(toks, 1, j))))

\* one call of handleFormat(t) and the editor's reaction to it
FormatCall(t) ==
  /\ phase \in {"input", "applied"}
  /\ phase = "applied" => t = type
  /\ \E r \in {handleFormat(t, content, selFrom, selTo)} :
       /\ content' = r.content
       /\ \E s \in SelectionsAfter(r, content, selFrom, selTo) :
            selFrom' = s[1] /\ selTo' = s[2]
       /\ path' = r.path
       /\ outcome' = r.outcome
       /\ request' = r.request
       /\ firstPath' = IF phase = "input" THEN r.path ELSE firstPath
  /\ type' = t
  /\ phase' = IF phase = "input" THEN "applied" ELSE "reapplied"
  /\ UNCHANGED <<inContent, inFrom, inTo>>

\* handleFormat(t) called from the main toolbar (onFormat)
Format(t) == FormatCall(t) /\ UNCHANGED appVars

\* a button of the selection toolbar, which is shown while more than two
\* characters are selected: Editor.handleFormat changes the document and the
\* selection in one transaction, and the update listener hands the new
\* document to the application
ToolbarFormat(t) ==
  /\ phase \in {"input", "applied"}
  /\ phase = "applied" => t = type
  /\ selTo - selFrom > 2
  /\ \E r \in {EditorHandleFormat(t, content, selFrom, selTo)} :
       /\ content' = r.content
       /\ selFrom' = r.request[1]
       /\ selTo' = r.request[2]
       /\ path' = r.path
       /\ outcome' = r.outcome
       /\ request' = r.request
       /\ firstPath' = IF phase = "input" THEN r.path ELSE firstPath
  /\ type' = t
  /\ phase' = IF phase = "input" THEN "applied" ELSE "reapplied"
  /\ UNCHANGED <<inContent, inFrom, inTo>>
  /\ UNCHANGED appVars

FormatInline == \E t \in InlineTypes : Format(t)
FormatInsert == \E t \in InsertTypes : Format(t)
FormatLinePrefix == \E t \in LinePrefixTypes : Format(t)
FormatParagraph == Format("paragraph")
FormatClear == Format("clearFormatting")
FormatUnknown == \E t \in UnknownTypes : Format(t)

Next ==
  \/ FormatInline
  \/ FormatInsert
  \/ FormatLinePrefix
  \/ FormatParagraph
  \/ FormatClear
  \/ FormatUnknown

Init == InitFrom(MixedTokens, MaxMixedTokens)
Spec == Init /\ [][Next]_vars

\* the inline formats on buffers of inline markers
InitInline == InitFrom(InlineTokens, MaxInlineTokens)
NextInline == FormatInline \/ FormatInsert
SpecInline == InitInline /\ [][NextInline]_vars

\* the line formats on buffers of line prefixes
InitLine == InitFrom(LineTokens, MaxLineTokens)
NextLine == FormatLinePrefix \/ FormatParagraph
SpecLine == InitLine /\ [][NextLine]_vars

\* clearFormatting on buffers of markers and on the composed inputs, the
\* latter selected from end to end
InitClear ==
  \/ InitFrom(ClearTokens, MaxClearTokens)
  \/ \E u \in UnitCases : InitAt(u.marked, 0, Len(u.marked))
NextClear == FormatClear
SpecClear == InitClear /\ [][NextClear]_vars

\* the line formats and paragraph on buffers written line by line, selected
\* from the start of a line to the end of the same or a later line
MaxLines == 2

LineForms == {<<>>, <<" ">>, <<"a">>, <<"#", " ", "a">>, <<">", " ", "a">>, <<"*", " ", "a">>,
              <<"7", ".", " ", "a">>, <<"-", " ", "[", "x", "]", " ", "a">>, <<"[", "a">>,
              <<"=">>, <<"-">>}

ExampleBlocks == {<<<<"a">>, <<"b">>, <<"c">>>>, <<<<"7", ".", " ", "a">>, <<>>, <<"a">>>>}

BlockOf(ls) == Join(ls, <<"\n">>)

\* the offset of the first character of line i of the block
LineOffset(ls, i) == IF i = 1 THEN 0 ELSE Len(BlockOf(SubSeq(ls, 1, i - 1))) + 1

InitBlock ==
  \E ls \in (TokenSeqs(LineForms, MaxLines) \ {<<>>}) \cup ExampleBlocks :
    \E i \in 1..Len(ls) : \E j \in i..Len(ls) :
      InitAt(BlockOf(ls), LineOffset(ls, i), LineOffset(ls, j) + Len(ls[j]))
NextBlock == FormatLinePrefix \/ FormatParagraph
SpecBlock == InitBlock /\ [][NextBlock]_vars

\* the block inserts on buffers written with their own markers
MaxInsertTokens == 3

InsertTokens == {<<"a">>, <<"[", "^">>, <<"]">>, <<BQ, BQ, BQ, "\n">>, <<"\n", BQ, BQ, BQ>>, <<"\n">>}

InitInsert == InitFrom(InsertTokens, MaxInsertTokens)
NextInsert == FormatInsert
SpecInsert == InitInsert /\ [][NextInsert]_vars

\* bold, italic and code from the two entry points: the application's
\* handleFormat and the buttons of the selection toolbar
MaxToolbarTokens == 3

ToolbarTokens == {<<"a", "b", "c">>, <<"*">>, <<"*", "*">>, <<"_">>, <<BQ>>}

FormatToolbar == \E t \in DOMAIN EditorFormats : ToolbarFormat(t)
FormatShortcut == \E t \in DOMAIN EditorFormats : Format(t)

InitToolbar == InitFrom(ToolbarTokens, MaxToolbarTokens)
NextToolbar == FormatShortcut \/ FormatToolbar
SpecToolbar == InitToolbar /\ [][NextToolbar]_vars

\* clearFormatting on whole lines: plain, blank, with a line marker, with
\* escaped punctuation
MaxClearLines == 2

LineMarkers == {<<"#", " ">>, <<">", " ", ">", " ">>, <<"*", " ">>, <<"7", ".", " ">>,
                <<"-", " ", "[", " ", "]", " ">>, <<"-", " ", "[", "x", "]", " ">>}
EscapedForms == {<<"\\", "*", "x", "\\", "*">>, <<"\\", "#", " ", "x">>}
PlainForms == {<<>>, <<" ">>, <<"x">>}
ClearLineForms == PlainForms \cup {m \o <<"x">> : m \in LineMarkers} \cup EscapedForms

ExampleClearBlocks == {<<<<"x">>, <<" ">>, <<>>, <<"x">>>>}

InitClearLines ==
  \E ls \in (TokenSeqs(ClearLineForms, MaxClearLines) \ {<<>>}) \cup ExampleClearBlocks :
    \E i \in 1..Len(ls) : \E j \in i..Len(ls) :
      InitAt(BlockOf(ls), LineOffset(ls, i), LineOffset(ls, j) + Len(ls[j]))
NextClearLines == FormatClear
SpecClearLines == InitClearLines /\ [][NextClearLines]_vars

\* the inline formats on buffers written with HTML tags and stars
MaxTagTokens == 3

TagTokens == {<<"a">>, <<"*">>, <<"*", "*">>, formats["subscript"].prefix, formats["subscript"].suffix,
              formats["highlight"].prefix, formats["highlight"].suffix}

InitTags == InitFrom(TagTokens, MaxTagTokens)
NextTags == FormatInline
SpecTags == InitTags /\ [][NextTags]_vars

----------------------------------------------------------------------------
(* The application around the buffer: typing, the AI enhancement dialog,   *)
(* auto-save and the document-level keyboard shortcuts                     *)

bufferVars == <<content, selFrom, selTo, phase, type, path, outcome, request,
                inContent, inFrom, inTo, firstPath>>
saveVars == <<debouncedContent, savedContent, isSaving, saveTimer>>

\* handleSelectionChange: currentSelection is kept while more than two
\* characters are selected, null (<<>>) otherwise
currentSelection(c, from, to) ==
  IF to - from > 2
  THEN <<[text |-> Slice(c, from, to), from |-> from, to |-> to]>>
  ELSE <<>>

\* handleEnhanceFromToolbar: the new value of aiEnhance
handleEnhanceFromToolbar(cur, dialog) ==
  IF cur = <<>>
  THEN dialog
  ELSE <<[originalText |-> cur[1].text,
          selectionStart |-> cur[1].from,
          selectionEnd |-> cur[1].to]>>

\* String.prototype.replace(pattern, replacement) with a string pattern
ReplaceFirst(s, p, r) ==
  LET k == FindStr(s, 0, p)
  IN IF k < 0 THEN s ELSE Slice(s, 0, k) \o r \o SliceFrom(s, k + Len(p))

\* AIEnhanceDialog.handleApply: the selected changes applied to originalText
\* (lists of one change, which the sort leaves as they are)
RECURSIVE handleApply(_, _, _)
handleApply(result, changes, selectedChanges) ==
  IF Len(changes) = 0 THEN result
  ELSE handleApply(IF Head(changes).id \in selectedChanges
                   THEN ReplaceFirst(result, Head(changes).original, Head(changes).replacement)
                   ELSE result,
                   Tail(changes), selectedChanges)

\* handleApplyAIEnhancement (selection mode): newContent
ApplyToSelection(c, dialog, newText) ==
  Slice(c, 0, dialog.selectionStart) \o newText \o SliceFrom(c, dialog.selectionEnd)

\* changes the backend may propose for a selection
AIChanges ==
  {<<[id |-> 1, original |-> <<"a">>, replacement |-> <<"A">>]>>,
   <<[id |-> 1, original |-> <<"*", "*">>, replacement |-> <<>>]>>}

\* the Apply button of the open dialog: handleApply, then
\* handleApplyAIEnhancement with its result, then onClose
ApplyAIEnhancement ==
  /\ aiEnhance # <<>>
  /\ \E changes \in AIChanges : \E selectedChanges \in SUBSET {1} :
       \E newText \in {handleApply(aiEnhance[1].originalText, changes, selectedChanges)} :
         /\ content' = ApplyToSelection(content, aiEnhance[1], newText)
         /\ \E s \in {EditorSetSelection(Len(content'), aiEnhance[1].selectionStart,
                                         aiEnhance[1].selectionStart + Len(newText))} :
              selFrom' = s[1] /\ selTo' = s[2]
         /\ aiApplied' = <<[dialog |-> aiEnhance[1], before |-> content,
                            newText |-> newText, after |-> content']>>
  /\ aiEnhance' = <<>>
  /\ UNCHANGED <<phase, type, path, outcome, request, inContent, inFrom, inTo, firstPath>>
  /\ UNCHANGED <<saveVars, event, handled>>

\* the dialog closed without applying (onClose)
CloseAIEnhancement ==
  /\ aiEnhance # <<>>
  /\ aiEnhance' = <<>>
  /\ UNCHANGED <<bufferVars, saveVars, event, handled, aiApplied>>

MaxDocLen == 5

\* a character typed into the editor over the selection (updateListener ->
\* onChange -> updateContent); the dialog's overlay covers the editor
TypeChar ==
  /\ aiEnhance = <<>>
  /\ Len(content) - (selTo - selFrom) < MaxDocLen
  /\ content' = Slice(content, 0, selFrom) \o <<"a">> \o SliceFrom(content, selTo)
  /\ selFrom' = selFrom + 1
  /\ selTo' = selFrom + 1
  /\ UNCHANGED <<phase, type, path, outcome, request, inContent, inFrom, inTo, firstPath>>
  /\ UNCHANGED <<appVars>>

\* the auto-save effect: it runs again when debouncedContent or savedContent
\* changed, after the cleanup of its last run has cleared that run's timer
AutoSaveEffect(debounced, saved, saving, timer) ==
  IF debounced = debouncedContent /\ saved = savedContent
  THEN [isSaving |-> saving, saveTimer |-> timer]
  ELSE IF debounced # saved
       THEN [isSaving |-> TRUE, saveTimer |-> <<debounced>>]
       ELSE [isSaving |-> saving, saveTimer |-> <<>>]

\* the state left by a render with the given debouncedContent, savedContent
Rendered(debounced, saved, saving, timer) ==
  \E eff \in {AutoSaveEffect(debounced, saved, saving, timer)} :
    /\ debouncedContent' = debounced
    /\ savedContent' = saved
    /\ isSaving' = eff.isSaving
    /\ saveTimer' = eff.saveTimer

\* useDebounce(content, 1000): the timer started by the last change fires
DebounceFire ==
  /\ debouncedContent # content
  /\ Rendered(content, savedContent, isSaving, saveTimer)
  /\ UNCHANGED <<bufferVars, aiEnhance, aiApplied, event, handled>>

\* the 300 ms timer of the auto-save effect fires
SaveTimerFire ==
  /\ saveTimer # <<>>
  /\ Rendered(debouncedContent, saveTimer[1], FALSE, <<>>)
  /\ UNCHANGED <<bufferVars, aiEnhance, aiApplied, event, handled>>

\* handleSave (manual save)
handleSave == Rendered(debouncedContent, content, isSaving, saveTimer)

\* the shortcut list of App
shortcuts ==
  <<[key |-> "b", ctrl |-> TRUE, shift |-> FALSE, alt |-> FALSE, handler |-> "bold"],
    [key |-> "i", ctrl |-> TRUE, shift |-> FALSE, alt |-> FALSE, handler |-> "italic"],
    [key |-> "k", ctrl |-> TRUE, shift |-> FALSE, alt |-> FALSE, handler |-> "link"],
    [key |-> "z", ctrl |-> TRUE, shift |-> FALSE, alt |-> FALSE, handler |-> "undo"],
    [key |-> "y", ctrl |-> TRUE, shift |-> FALSE, alt |-> FALSE, handler |-> "redo"],
    [key |-> "z", ctrl |-> TRUE, shift |-> TRUE, alt |-> FALSE, handler |-> "redo"],
    [key |-> "s", ctrl |-> TRUE, shift |-> FALSE, alt |-> FALSE, handler |-> "save"],
    [key |-> "1", ctrl |-> TRUE, shift |-> FALSE, alt |-> FALSE, handler |-> "h1"],
    [key |-> "2", ctrl |-> TRUE, shift |-> FALSE, alt |-> FALSE, handler |-> "h2"],
    [key |-> "3", ctrl |-> TRUE, shift |-> FALSE, alt |-> FALSE, handler |-> "h3"],
    [key |-> "e", ctrl |-> TRUE, shift |-> FALSE, alt |-> FALSE, handler |-> "enhance"]>>

NATIVE_TEXT_SHORTCUTS == {"a", "c", "v", "x", "z", "y"}

\* variant: a shortcut without the shift flag accepts either state of Shift
shiftMatchAny(shortcut, e) == IF shortcut.shift THEN e.shiftKey ELSE TRUE
shiftMatch(shortcut, e) == IF shortcut.shift THEN e.shiftKey ELSE ~e.shiftKey

ctrlMatch(shortcut, e) ==
  IF shortcut.ctrl THEN (e.ctrlKey \/ e.metaKey) ELSE ~(e.ctrlKey \/ e.metaKey)
altMatch(shortcut, e) == IF shortcut.alt THEN e.altKey ELSE ~e.altKey
keyMatch(shortcut, e) == ToLower(e.key) = ToLower(shortcut.key)

\* the early return that leaves a native editing key of a text input alone
NativeReturn(list, e) ==
  /\ e.isTextInput /\ (e.ctrlKey \/ e.metaKey) /\ ~e.shiftKey /\ ~e.altKey
  /\ ToLower(e.key) \in NATIVE_TEXT_SHORTCUTS
  /\ ~\E k \in 1..Len(list) :
        /\ ToLower(list[k].key) = ToLower(e.key)
        /\ list[k].ctrl /\ ~list[k].shift /\ ~list[k].alt

\* the loop over the shortcuts from index k on: the handlers it runs, in order
RECURSIVE Dispatch(_, _, _)
Dispatch(list, e, k) ==
  IF k > Len(list) THEN <<>>
  ELSE IF ctrlMatch(list[k], e) /\ shiftMatch(list[k], e)
          /\ altMatch(list[k], e) /\ keyMatch(list[k], e)
       THEN <<list[k].handler>>
       ELSE Dispatch(list, e, k + 1)

\* handleKeyDown: the handlers one keydown event runs
handleKeyDown(list, e) ==
  IF NativeReturn(list, e) THEN <<>> ELSE Dispatch(list, e, 1)

ShortcutFormats == {"bold", "italic", "h1", "h2", "h3"}

\* the body of the handler a shortcut names; undo, redo (CodeMirror's history)
\* and the link dialog leave the state of this model as it is
RunHandler(h) ==
  IF h \in ShortcutFormats
  THEN FormatCall(h) /\ UNCHANGED <<aiEnhance, aiApplied, saveVars>>
  ELSE IF h = "save"
  THEN handleSave /\ UNCHANGED <<bufferVars, aiEnhance, aiApplied>>
  ELSE IF h = "enhance"
  THEN /\ aiEnhance' = handleEnhanceFromToolbar(currentSelection(content, selFrom, selTo),
                                                 aiEnhance)
       /\ UNCHANGED <<bufferVars, aiApplied, saveVars>>
  ELSE UNCHANGED <<bufferVars, aiEnhance, aiApplied, saveVars>>

\* one keydown event on the document
KeyDown(e) ==
  \E hs \in {handleKeyDown(shortcuts, e)} :
    /\ event' = <<e>>
    /\ handled' = hs
    /\ IF hs = <<>>
       THEN UNCHANGED <<bufferVars, aiEnhance, aiApplied, saveVars>>
       ELSE RunHandler(hs[1])

\* a keydown event: key, modifiers, and whether the target is a text input
KeyEvent(k, c, m, s, a, t) ==
  [key |-> k, ctrlKey |-> c, metaKey |-> m, shiftKey |-> s, altKey |-> a, isTextInput |-> t]

\* Ctrl + key pressed outside a text input
Ctrl(k) == KeyEvent(k, TRUE, FALSE, FALSE, FALSE, FALSE)

\* the AI dialog over a buffer with a selection
AITokens == {<<"a", "b", "c">>, <<"*", "*">>, <<"a">>}
MaxAITokens == 3
KeyDownAI == \E k \in {"b", "e"} : KeyDown(Ctrl(k))
InitAI == InitFrom(AITokens, MaxAITokens)
NextAI == KeyDownAI \/ ApplyAIEnhancement \/ CloseAIEnhancement
SpecAI == InitAI /\ [][NextAI]_vars

\* auto-save: edits, the two timers and manual save
KeyDownSave == \E k \in {"b", "s"} : KeyDown(Ctrl(k))
InitAutoSave == InitAt(<<>>, 0, 0) \/ InitAt(<<"a", "a">>, 0, 2)
NextAutoSave == TypeChar \/ KeyDownSave \/ DebounceFire \/ SaveTimerFire
SpecAutoSave == InitAutoSave /\ [][NextAutoSave]_vars
\* both timers fire once they are set and stay set
FairAutoSave == SpecAutoSave /\ WF_vars(DebounceFire) /\ WF_vars(SaveTimerFire)

\* keys of the shortcut list, one of them in both cases, and a key without a
\* shortcut
Keys == {"b", "k", "z", "Z", "y", "s", "1", "e", "x"}
KeyEvents ==
  {KeyEvent(k, c, m, s, a, t) :
     k \in Keys, c \in BOOLEAN, m \in BOOLEAN, s \in BOOLEAN, a \in BOOLEAN, t \in BOOLEAN}
KeyDownAny == \E e \in KeyEvents : KeyDown(e)
InitKeys == InitAt(<<"a", "b", "c">>, 0, 3)
NextKeys == KeyDownAny
SpecKeys == InitKeys /\ [][NextKeys]_vars

----------------------------------------------------------------------------
(* Properties                                                              *)

Applied(T) == phase = "applied" /\ type \in T
Reapplied(T) == phase = "reapplied" /\ type \in T
Restored == content = inContent /\ selFrom = inFrom /\ selTo = inTo
Selected == Slice(content, selFrom, selTo)
InSelected == Slice(inContent, inFrom, inTo)

\* C1, as stated: for every inline toggle format, every buffer and every
\* non-empty selection, applying the format twice (the second time on the
\* selection the first one returned) gives back the buffer and the selection.
C1_DoubleToggleRoundTrip ==
  (Reapplied(InlineTypes) /\ inFrom < inTo) => Restored

\* C1, amended: the round trip holds whenever the first application is the
\* one that adds the markers (the selection was not wrapped before); the
\* second application then takes them off again.
C1_WrapThenToggleRoundTrip ==
  (Reapplied(InlineTypes) /\ inFrom < inTo /\ firstPath = "wrap")
    => (Restored /\ path = "unwrapBorder")

C1_Witness ==
  /\ Reapplied({"italic"}) /\ firstPath = "wrap" /\ path = "unwrapBorder"
  /\ 0 < inFrom /\ inFrom < inTo /\ inTo < Len(inContent)
  /\ Restored

\* C2, as stated: whenever handleFormat adds the markers of an inline format
\* (around the selection, or around the placeholder at a caret),
\* detectActiveStyles on the new buffer and the returned selection reports
\* the format.
C2_DetectedAfterApplication ==
  (Applied(InlineTypes) /\ path = "wrap")
    => type \in detectActiveStyles(content, Selected, selFrom, selTo)

\* C3, as stated: every handleFormat command asks for a selection with
\* 0 <= newFrom <= newTo <= len(newBuffer).
C3_RequestedSelectionValid ==
  (phase # "input" /\ request # <<>>)
    => (0 <= request[1] /\ request[1] <= request[2] /\ request[2] <= Len(content))

\* C4: at a caret n, an inline format inserts prefix+placeholder+suffix at n,
\* leaves the text on both sides alone and selects exactly the placeholder.
C4_EmptySelectionInsert ==
  (Applied(InlineTypes) /\ inFrom = inTo) =>
    LET f == formats[type]
        n == inFrom
    IN /\ content = Slice(inContent, 0, n) \o f.prefix \o f.placeholder \o f.suffix
                      \o SliceFrom(inContent, n)
       /\ request = <<n + Len(f.prefix), n + Len(f.prefix) + Len(f.placeholder)>>
       /\ selFrom = request[1] /\ selTo = request[2]
       /\ Selected = f.placeholder

C4_Witness ==
  /\ Applied({"bold"}) /\ inFrom = inTo
  /\ 0 < inFrom /\ inFrom < Len(inContent)
  /\ Selected = formats["bold"].placeholder

\* C5: plain words wrapped in bold, italic, strikethrough, code, link or image
\* syntax and selected from end to end are cleared to exactly the words;
\* "**bold** and [link](http://x) and `code`" becomes "bold and link and code".
C5_ClearKeepsWords ==
  (Applied({"clearFormatting"}) /\ inFrom = 0 /\ inTo = Len(inContent) /\ inFrom < inTo) =>
    /\ \A u \in UnitCases : inContent = u.marked => content = u.inner
    /\ inContent = MarkedText(ExampleUnits) =>
         content = <<"b", "o", "l", "d", " ", "a", "n", "d", " ", "l", "i", "n", "k", " ",
                     "a", "n", "d", " ", "c", "o", "d", "e">>

C5_Witness ==
  /\ Applied({"clearFormatting"})
  /\ inContent = <<"*", "*", "b", "o", "l", "d", "*", "*", " ", "a", "n", "d", " ",
                   "[", "l", "i", "n", "k", "]", "(", "h", "t", "t", "p", ":", "/", "/", "x", ")",
                   " ", "a", "n", "d", " ", BQ, "c", "o", "d", "e", BQ>>
  /\ inFrom = 0 /\ inTo = Len(inContent)
  /\ content = InnerText(ExampleUnits)

\* C6: clearFormatting at a caret changes neither the buffer nor the
\* selection, and asks the editor for nothing.
C6_ClearAtCaretNoOp ==
  (Applied({"clearFormatting"}) /\ inFrom = inTo) => (Restored /\ request = <<>>)

C6_Witness ==
  /\ Applied({"clearFormatting"}) /\ inFrom = inTo
  /\ 0 < inFrom /\ inFrom < Len(inContent)
  /\ ClearText(inContent) # inContent
  /\ Restored

\* C7: clearFormatting on a non-empty selection [from, to) leaves
\* buffer[0..from) and buffer[to..) in place, puts the cleared text between
\* them and selects exactly [from, from+len(cleared)).
C7_ClearTouchesSelectionOnly ==
  (Applied({"clearFormatting"}) /\ inFrom < inTo) =>
    LET cleared == ClearText(InSelected)
    IN /\ content = Slice(inContent, 0, inFrom) \o cleared \o SliceFrom(inContent, inTo)
       /\ selFrom = inFrom
       /\ selTo = inFrom + Len(cleared)
       /\ Selected = cleared

C7_Witness ==
  /\ Applied({"clearFormatting"})
  /\ 0 < inFrom /\ inFrom < inTo /\ inTo < Len(inContent)
  /\ content # inContent
  /\ Slice(inContent, 0, inFrom) = <<"*", "*">>
  /\ SliceFrom(content, selTo) = <<"*", "*">>

C9_HeadingReplacedBothWays ==
  LET ls == LineStartOf(inContent, inFrom)
      le == LineEndOf(inContent, inTo)
      line == Slice(inContent, ls, le)
      m == SkipChar(line, 0, "#")
      n == Len(formats[type].prefix) - 1
  IN (/\ Applied(HeadingTypes) /\ inFrom < inTo
      /\ ~Includes(InSelected, "\n")
      /\ m >= 1 /\ m <= 6 /\ At(line, m) = " " /\ m # n)
       => content = Slice(inContent, 0, ls) \o formats[type].prefix \o SliceFrom(line, m + 1)
                      \o SliceFrom(inContent, le)

\* C10, as stated: after quote, list, orderedList or task is applied on the
\* toggle-on path, every non-blank line of the span is one the detector
\* reports as carrying the target format.
C10_EveryLineCarriesTarget ==
  (Applied({"quote", "list", "orderedList", "task"}) /\ path = "lineReplace") =>
    LET lineStarts == {request[1]} \cup
                        {k + 1 : k \in {x \in request[1]..(request[2] - 1) : content[x + 1] = "\n"}}
    IN \A p \in lineStarts :
         IsBlank(Slice(content, p, LineEndOf(content, p)))
           \/ type \in detectActiveStyles(content, <<>>, p, p)

\* the lines the selection of the input spans, and what stands in their
\* place afterwards (between the untouched text before and after the span)
InSpanStart == LineStartOf(inContent, inFrom)
InSpanEnd == LineEndOf(inContent, inTo)
InLines == Split(Slice(inContent, InSpanStart, InSpanEnd), "\n")
OutLines == Split(Slice(content, InSpanStart, Len(content) - (Len(inContent) - InSpanEnd)), "\n")

\* how many of the first k lines are not blank
Rank(lines, k) == Cardinality({j \in 1..k : ~IsBlank(lines[j])})

\* the line starts, after optional indentation, with the number n, ". "
CarriesNumber(line, n) ==
  LET s == SkipSpace(line, 0)
      d == SkipDigits(line, s)
  IN Slice(line, s, d) = NumStr(n) /\ At(line, d) = "." /\ At(line, d + 1) = " "

\* C11: orderedList applied on the toggle-on path gives the k-th non-blank
\* line of the span the number k, whatever number it had; "a\nb\nc" becomes
\* "1. a\n2. b\n3. c".
C11_OrderedRenumbered ==
  (Applied({"orderedList"}) /\ path = "lineReplace") =>
    /\ Len(OutLines) = Len(InLines)
    /\ \A k \in 1..Len(InLines) :
         ~IsBlank(InLines[k]) => CarriesNumber(OutLines[k], Rank(InLines, k))
    /\ (inContent = <<"a", "\n", "b", "\n", "c">> /\ inFrom = 0 /\ inTo = 5) =>
         content = <<"1", ".", " ", "a", "\n", "2", ".", " ", "b", "\n", "3", ".", " ", "c">>

C11_Witness ==
  /\ Applied({"orderedList"}) /\ path = "lineReplace"
  /\ inContent = <<"a", "\n", "b", "\n", "c">> /\ inFrom = 0 /\ inTo = 5
  /\ content = <<"1", ".", " ", "a", "\n", "2", ".", " ", "b", "\n", "3", ".", " ", "c">>

\* C12, as stated: for every line-prefix format, every buffer and every
\* non-empty selection on which the first application takes the toggle-on
\* path, a second application on the returned selection gives back the
\* original buffer text.
C12_LinePrefixRoundTrip ==
  (Reapplied(LinePrefixTypes) /\ inFrom < inTo /\ firstPath = "lineReplace")
    => content = inContent

\* C13: detectActiveStyles never reports more than one of h1..h6 and
\* paragraph.
C13_HeadingExclusive ==
  Cardinality(detectActiveStyles(content, Selected, selFrom, selTo)
                \cap (HeadingTypes \cup {"paragraph"})) <= 1

C13_Witness ==
  /\ Applied({"h1"}) /\ inContent = <<"a", "\n", "-">>
  /\ content = <<"#", " ", "a", "\n", "-">> /\ selFrom = 0 /\ selTo = 3
  /\ detectActiveStyles(content, Selected, selFrom, selTo) = {"h1"}

\* C14, as stated: detectActiveStyles reports exactly one of h1..h6, quote,
\* list, orderedList, task and paragraph, also for a line followed by an
\* underline of = or - and for a blank line.
C14_ExactlyOneLineStyle ==
  Cardinality(detectActiveStyles(content, Selected, selFrom, selTo)
                \cap (LinePrefixTypes \cup {"paragraph"})) = 1

\* C15, as stated: italic applied to a non-empty selection that has ** (or
\* __) right before and right after it, and that the detector reports as
\* bold and not as italic, adds the italic markers and does not take one
\* character off each pair.
C15_ItalicNotConfusedWithBold ==
  LET double(m) == /\ inFrom >= 2
                   /\ Slice(inContent, inFrom - 2, inFrom) = <<m, m>>
                   /\ Slice(inContent, inTo, inTo + 2) = <<m, m>>
      detected == detectActiveStyles(inContent, InSelected, inFrom, inTo)
  IN (/\ Applied({"italic"}) /\ inFrom < inTo
      /\ double("*") \/ double("_")
      /\ "bold" \in detected /\ "italic" \notin detected)
       => /\ path = "wrap"
          /\ content = Slice(inContent, 0, inFrom) \o <<"*">> \o InSelected \o <<"*">>
                         \o SliceFrom(inContent, inTo)

\* the marker pairs of an inline format: the one of the table and, for bold
\* and italic, the underscore one
MarkerPairs(t) ==
  {<<formats[t].prefix, formats[t].suffix>>}
    \cup (IF t \in {"bold", "italic"} THEN {<<AltMarker(t), AltMarker(t)>>} ELSE {})

\* the pair stands right before and right after the selection of the input;
\* it is gone, nothing else changed, and the same text is selected
AroundSelection(mk) ==
  /\ inFrom >= Len(mk[1])
  /\ Slice(inContent, inFrom - Len(mk[1]), inFrom) = mk[1]
  /\ Slice(inContent, inTo, inTo + Len(mk[2])) = mk[2]
TakenFromAround(mk) ==
  /\ content = Slice(inContent, 0, inFrom - Len(mk[1])) \o InSelected
                 \o SliceFrom(inContent, inTo + Len(mk[2]))
  /\ selFrom = inFrom - Len(mk[1])
  /\ selTo = inTo - Len(mk[1])
  /\ Selected = InSelected

\* the selected text of the input starts and ends with the pair and is longer
\* than the two; they are gone, nothing else changed, and the text that was
\* between them is selected
InsideSelection(mk) ==
  /\ StartsWith(InSelected, mk[1])
  /\ EndsWith(InSelected, mk[2])
  /\ Len(InSelected) > Len(mk[1]) + Len(mk[2])
TakenFromInside(mk) ==
  LET inner == Slice(InSelected, Len(mk[1]), Len(InSelected) - Len(mk[2]))
  IN /\ content = Slice(inContent, 0, inFrom) \o inner \o SliceFrom(inContent, inTo)
     /\ selFrom = inFrom
     /\ selTo = inFrom + Len(inner)
     /\ Selected = inner

\* C16: when the markers of an inline format border a non-empty selection or
\* the selected text starts and ends with them (and is longer), the format
\* deletes exactly the two markers, changes no other character and selects
\* exactly the text that was wrapped.
C16_ToggleOffRemovesMarkers ==
  (/\ Applied(InlineTypes) /\ inFrom < inTo
   /\ \E mk \in MarkerPairs(type) : AroundSelection(mk) \/ InsideSelection(mk))
    => \E mk \in MarkerPairs(type) :
         \/ AroundSelection(mk) /\ TakenFromAround(mk)
         \/ InsideSelection(mk) /\ TakenFromInside(mk)

C16_Witness ==
  /\ Applied({"bold"}) /\ path = "unwrapAltBorder"
  /\ inContent = <<"_", "_", "a", "_", "_">> /\ inFrom = 2 /\ inTo = 3
  /\ content = <<"a">> /\ selFrom = 0 /\ selTo = 1

\* the detector's pattern of a block format matches the line
TargetMatches(t, line) ==
  CASE t = "quote" -> QuoteMatch(line).len > 0
    [] t = "list" -> BulletMatch(line).len > 0
    [] t = "orderedList" -> OrderedMatch(line).len > 0
    [] t = "task" -> TaskMatch(line).len > 0

\* C17, as stated: quote, list, orderedList or task on a non-empty selection
\* strips the prefixes exactly when every non-blank line of the span matches
\* the detector's pattern of the format.
C17_ToggleOffByPatternClass ==
  (Applied({"quote", "list", "orderedList", "task"}) /\ inFrom < inTo) =>
    (path = "lineToggleOff"
       <=> /\ \E k \in 1..Len(InLines) : ~IsBlank(InLines[k])
           /\ \A k \in 1..Len(InLines) :
                IsBlank(InLines[k]) \/ TargetMatches(type, InLines[k]))

\* C18: a line-prefix format on a selection of several lines leaves every
\* empty or whitespace-only line of the span as it was, adding or stripping,
\* and such a line uses up no ordered-list number.
C18_BlankLinesKept ==
  (Applied(LinePrefixTypes) /\ inFrom < inTo /\ Len(InLines) > 1) =>
    /\ Len(OutLines) = Len(InLines)
    /\ \A k \in 1..Len(InLines) : IsBlank(InLines[k]) => OutLines[k] = InLines[k]
    /\ (type = "orderedList" /\ path = "lineReplace") =>
         \A k \in 2..Len(InLines) :
           (IsBlank(InLines[k - 1]) /\ ~IsBlank(InLines[k])) =>
             CarriesNumber(OutLines[k], Rank(InLines, k - 1) + 1)

C18_Witness ==
  /\ Applied({"orderedList"}) /\ path = "lineReplace"
  /\ inContent = <<"7", ".", " ", "a", "\n", "\n", "a">> /\ inFrom = 0 /\ inTo = 7
  /\ content = <<"1", ".", " ", "a", "\n", "\n", "2", ".", " ", "a">>

\* C19: paragraph on a line that starts with 1 to 6 '#' and whitespace
\* deletes exactly that prefix; otherwise, on a line that an underline on the
\* next line makes a heading, it deletes exactly the underline and its line
\* break; every other character stays.
C19_ParagraphRemovesHeadingSyntax ==
  LET line == Slice(inContent, InSpanStart, LineEndOf(inContent, InSpanStart))
      n == SkipChar(line, 0, "#")
      hashed == n >= 1 /\ n <= 6 /\ IsSpace(At(line, n))
      nextEnd == LineEndOf(inContent, InSpanEnd + 1)
      nextLine == Slice(inContent, InSpanEnd + 1, nextEnd)
      underlined ==
        /\ ~hashed /\ ~Includes(InSelected, "\n") /\ ~IsBlank(line)
        /\ InSpanEnd < Len(inContent)
        /\ IsUnderline(nextLine, "=") \/ (IsUnderline(nextLine, "-") /\ At(line, 0) # ">")
  IN Applied({"paragraph"}) =>
       /\ hashed => content = Slice(inContent, 0, InSpanStart)
                                \o SliceFrom(inContent, InSpanStart + n + 1)
       /\ underlined => content = Slice(inContent, 0, InSpanEnd) \o SliceFrom(inContent, nextEnd)

C19_Witness ==
  /\ Applied({"paragraph"}) /\ path = "paragraphSetext"
  /\ inContent = <<"a", "\n", "=">> /\ inFrom = 0 /\ inTo = 1
  /\ content = <<"a">>

\* C20, as stated: paragraph leaves the buffer unchanged whenever the current
\* line has no '#' heading prefix and the detector's underline rule does not
\* report it as h1 or h2, as on a blank line or a quote line followed by a
\* line of dashes.
C20_ParagraphNoOpOnNonHeading ==
  (/\ Applied({"paragraph"})
   /\ HeadingMatchLen(Slice(inContent, InSpanStart, InSpanEnd)) = 0
   /\ {"h1", "h2"} \cap detectActiveStyles(inContent, InSelected, inFrom, inTo) = {})
    => content = inContent

\* C21, as stated: hr, table, codeBlock and footnote never toggle: for every
\* buffer and selection the template is inserted at or around the selection,
\* the buffer gets strictly longer and no character of it is removed.
C21_BlockInsertNeverToggles ==
  Applied(InsertTypes) =>
    LET f == formats[type]
        textToFormat == IF inFrom < inTo THEN InSelected ELSE f.placeholder
    IN /\ Len(content) > Len(inContent)
       /\ content = Slice(inContent, 0, inFrom) \o f.prefix \o textToFormat \o f.suffix
                      \o SliceFrom(inContent, inTo)

\* C26, as stated: bold, italic or code applied to a non-empty selection that
\* is already wrapped in the format's markers removes the markers, from the
\* main toolbar or a shortcut as well as from the selection toolbar, and both
\* entry points give the same buffer and selection for the same input.
C26_ToggleFromEveryEntryPoint ==
  (/\ Applied(DOMAIN EditorFormats) /\ inFrom < inTo
   /\ \E mk \in MarkerPairs(type) : AroundSelection(mk) \/ InsideSelection(mk))
    => /\ \E mk \in MarkerPairs(type) :
            \/ AroundSelection(mk) /\ TakenFromAround(mk)
            \/ InsideSelection(mk) /\ TakenFromInside(mk)
       /\ \E r \in {handleFormat(type, inContent, inFrom, inTo)} :
            /\ content = r.content
            /\ <<selFrom, selTo>> = EditorSetSelection(Len(r.content), r.request[1], r.request[2])

\* the lines of the selected text of the input
SelectedLines == Split(InSelected, "\n")

\* C22, as stated: clearFormatting takes the marker off every selected line
\* that begins with heading hashes, nested quote markers, a bullet, an
\* ordered-list number or a task marker and keeps the line's content; "- [ ] x"
\* and "- [x] x" both become "x".
C22_ClearStripsLineMarkers ==
  (/\ Applied({"clearFormatting"}) /\ inFrom < inTo
   /\ \A k \in 1..Len(SelectedLines) : \E m \in LineMarkers : SelectedLines[k] = m \o <<"x">>)
    => Selected = Join([k \in 1..Len(SelectedLines) |-> <<"x">>], <<"\n">>)

\* the text without the backslash of every escaped punctuation character
RECURSIVE Bare(_)
Bare(s) ==
  IF Len(s) = 0 THEN <<>>
  ELSE IF s[1] = "\\" /\ Len(s) > 1 /\ s[2] \in EscapedChars THEN <<s[2]>> \o Bare(SubSeq(s, 3, Len(s)))
  ELSE <<s[1]>> \o Bare(Tail(s))

\* C23, as stated: clearFormatting turns every backslash-escaped punctuation
\* character of the selection into the bare character and leaves the text
\* around it intact; "\*x\*" becomes "*x*", and an escaped marker is not
\* taken for emphasis or for a heading.
C23_ClearUnescapesPunctuation ==
  (/\ Applied({"clearFormatting"}) /\ inFrom < inTo
   /\ \A k \in 1..Len(SelectedLines) : SelectedLines[k] \in EscapedForms \cup {<<"x">>})
    => Selected = Bare(InSelected)

\* the non-blank lines, trimmed, with one line break between neighbours and
\* one blank line between lines that blank lines separated
RECURSIVE SeparatedFrom(_, _, _)
SeparatedFrom(lines, k, last) ==
  IF k > Len(lines) THEN <<>>
  ELSE IF IsBlank(lines[k]) THEN SeparatedFrom(lines, k + 1, last)
  ELSE (IF last = 0 THEN <<>> ELSE IF last = k - 1 THEN <<"\n">> ELSE <<"\n", "\n">>)
         \o Trim(lines[k]) \o SeparatedFrom(lines, k + 1, k)

\* C24, as stated: the cleared text of a non-empty selection has no leading
\* or trailing whitespace, no line with leading or trailing whitespace and no
\* two blank lines in a row; and paragraphs that one or more blank or
\* whitespace-only lines separated stay separated by exactly one blank line.
C24_ClearNormalisesWhitespace ==
  (Applied({"clearFormatting"}) /\ inFrom < inTo) =>
    LET out == Split(Selected, "\n")
    IN /\ Selected = Trim(Selected)
       /\ \A k \in 1..Len(out) : out[k] = Trim(out[k])
       /\ \A k \in 1..(Len(out) - 1) : ~(IsBlank(out[k]) /\ IsBlank(out[k + 1]))
       /\ (\A k \in 1..Len(SelectedLines) : SelectedLines[k] \in PlainForms)
            => Selected = SeparatedFrom(SelectedLines, 1, 0)

\* C25, as stated: detectActiveStyles reports an inline style on the ground
\* that the selected text itself starts with the prefix and ends with the
\* suffix only when the text is strictly longer than the two; an empty wrap
\* such as "<sub></sub>" or "****" without matching borders is not reported.
C25_SelfWrapNeedsContent ==
  \A t \in InlineTypes :
    (/\ t \in detectActiveStyles(content, Selected, selFrom, selTo)
     /\ ~\E mk \in MarkerPairs(t) :
           /\ EndsWith(Slice(content, 0, selFrom), mk[1])
           /\ StartsWith(SliceFrom(content, selTo), mk[2]))
      => \E mk \in MarkerPairs(t) :
           /\ StartsWith(Selected, mk[1])
           /\ EndsWith(Selected, mk[2])
           /\ Len(Selected) > Len(mk[1]) + Len(mk[2])

\* C27: a line-prefix format on a non-empty selection changes only the lines
\* from L, the start of the line of `from`, to R, the end of the line of `to`:
\* the text before L and from R on stays, and the selection returned is
\* exactly the new block, from a line start to a line end of the new buffer.
C27_LinePrefixFrame ==
  (Applied(LinePrefixTypes) /\ inFrom < inTo) =>
    LET L == LineStartOf(inContent, inFrom)
        R == LineEndOf(inContent, inTo)
        rest == Len(inContent) - R
    IN /\ Len(content) >= L + rest
       /\ Slice(content, 0, L) = Slice(inContent, 0, L)
       /\ SliceFrom(content, Len(content) - rest) = SliceFrom(inContent, R)
       /\ request = <<L, Len(content) - rest>>
       /\ selFrom = L /\ selTo = Len(content) - rest
       /\ selFrom = LineStartOf(content, selFrom)
       /\ selTo = LineEndOf(content, selTo)

C27_Witness ==
  /\ Applied({"orderedList"}) /\ path = "lineReplace"
  /\ inContent = <<"-", " ", "a">> /\ inFrom = 2 /\ inTo = 3
  /\ content = <<"1", ".", " ", "a">> /\ selFrom = 0 /\ selTo = 4

\* C28: AI edits are serialized against the buffer: whenever
\* handleApplyAIEnhancement has run in selection mode, the slice
\* [selectionStart, selectionEnd) of the buffer it ran on was the originalText
\* captured when the dialog was opened, and the text outside that slice is
\* the same after the run
C28_AIEditsSerialized ==
  aiApplied # <<>> =>
    LET d == aiApplied[1].dialog
        before == aiApplied[1].before
        after == aiApplied[1].after
        newText == aiApplied[1].newText
    IN /\ Slice(before, d.selectionStart, d.selectionEnd) = d.originalText
       /\ Slice(after, 0, d.selectionStart) = Slice(before, 0, d.selectionStart)
       /\ SliceFrom(after, d.selectionStart + Len(newText)) = SliceFrom(before, d.selectionEnd)

\* C29: auto-save always completes; its state part: isSaving is never left
\* true while no save timer is pending
C29_SavingHasTimer == isSaving => saveTimer # <<>>

\* the temporal part of C29: once the content has stopped changing,
\* savedContent equals content and isSaving is false from some point on
AutoSaveCompletes == <>[](savedContent = content /\ ~isSaving)
\* its first half alone
SavedEventually == <>[](savedContent = content)

\* the flags of a shortcut each equal the modifier state of the event, Ctrl or
\* Cmd counting as ctrl, and the key matches case-insensitively
FlagsEqual(s, e) ==
  /\ ToLower(s.key) = ToLower(e.key)
  /\ s.ctrl = (e.ctrlKey \/ e.metaKey)
  /\ s.shift = e.shiftKey
  /\ s.alt = e.altKey

\* C30: shortcut dispatch is exclusive: a keydown runs at most one handler,
\* the one of the first shortcut in list order whose key and flags equal the
\* event's; Ctrl/Cmd+Z runs undo, Ctrl/Cmd+Shift+Z runs redo, and a key
\* without Ctrl/Cmd runs no ctrl shortcut
C30_DispatchExclusive ==
  event # <<>> =>
    LET e == event[1]
        hits == {k \in 1..Len(shortcuts) : FlagsEqual(shortcuts[k], e)}
        mod == e.ctrlKey \/ e.metaKey
        isZ == ToLower(e.key) = "z"
    IN /\ Len(handled) <= 1
       /\ handled = IF hits = {} THEN <<>> ELSE <<shortcuts[Least(hits)].handler>>
       /\ (isZ /\ mod /\ ~e.shiftKey /\ ~e.altKey) => handled = <<"undo">>
       /\ (isZ /\ mod /\ e.shiftKey /\ ~e.altKey) => handled = <<"redo">>
       /\ ~mod => \A k \in 1..Len(shortcuts) :
                    shortcuts[k].ctrl =>
                      \A j \in 1..Len(handled) : handled[j] # shortcuts[k].handler

C30_Witness ==
  /\ event = <<KeyEvent("Z", FALSE, TRUE, TRUE, FALSE, TRUE)>>
  /\ handled = <<"redo">>

====
